---- MODULE Spec2Model ----
(***************************************************************************)
(* State-machine model of the simulation core of Tactical-Ops-Urban-Assault *)
(* (src/services/engine.ts): createInitialState and the per-frame          *)
(* transition updateGame with its helpers tryFireWeapon, updateBotAI,      *)
(* checkWallBetween and handleKill.                                        *)
(*                                                                         *)
(* Number representation.  The program computes in IEEE doubles; the model *)
(* computes in exact integers with these units:                            *)
(*   - lengths and positions: pixels (all modelled speeds are integral);   *)
(*   - health and damage: units of 0.5 point (Zone.damagePerTick = 0.5 is  *)
(*     1 unit), written Hp(points);                                        *)
(*   - zone radius / targetRadius: units of 1/10 pixel, written Zr(px);    *)
(*     targetRadius is stored doubled (targetRadius2 = 2 * targetRadius)   *)
(*     so that the halving of line 224 stays exact;                        *)
(*   - capture progress: units of 0.5 (the decay step of line 470),        *)
(*     written Cp(points);                                                 *)
(*   - shrinkTimer and timeRemaining: milliseconds (the code keeps         *)
(*     seconds and subtracts dt/1000).                                     *)
(* Angles are kept as the lattice direction (cos, sin) they point to; a    *)
(* direction that is not axis-aligned is quantised to its dominant axis.   *)
(* Math.random() draws and the human input are parameters of the tick.     *)
(***************************************************************************)
EXTENDS Integers, Sequences, FiniteSets, TLC

\* ------------------------------------------------------------------ units
Hp(points) == 2 * points
Zr(px) == 10 * px
Cp(points) == 2 * points

\* -------------------------------------------------------------- constants
PLAYER_RADIUS == 16
PLAYER_SPEED == 5

Teams == {"NONE", "ALLIED", "AXIS"}
Modes == {"TDM", "DOMINATION", "FFA", "HARDPOINT", "GUN_GAME", "BATTLE_ROYALE"}

WeaponTypes ==
    {"KNIFE", "PISTOL", "SMG", "PDW", "SHOTGUN", "AUTO_SHOTGUN", "RIFLE",
     "BURST_RIFLE", "LMG", "DMR", "SNIPER"}

\* WEAPONS (constants.ts): damage in health units, fireRate and reloadTime in ms.
WEAPONS ==
    [w \in WeaponTypes |->
       CASE w = "KNIFE"        -> [damage |-> Hp(100), fireRate |-> 400,  range |-> 50,   magSize |-> 100, reloadTime |-> 0]
         [] w = "PISTOL"       -> [damage |-> Hp(45),  fireRate |-> 250,  range |-> 600,  magSize |-> 7,   reloadTime |-> 1200]
         [] w = "SMG"          -> [damage |-> Hp(18),  fireRate |-> 60,   range |-> 500,  magSize |-> 30,  reloadTime |-> 1500]
         [] w = "PDW"          -> [damage |-> Hp(14),  fireRate |-> 40,   range |-> 400,  magSize |-> 50,  reloadTime |-> 2200]
         [] w = "SHOTGUN"      -> [damage |-> Hp(18),  fireRate |-> 900,  range |-> 250,  magSize |-> 8,   reloadTime |-> 2500]
         [] w = "AUTO_SHOTGUN" -> [damage |-> Hp(12),  fireRate |-> 200,  range |-> 200,  magSize |-> 20,  reloadTime |-> 3000]
         [] w = "RIFLE"        -> [damage |-> Hp(25),  fireRate |-> 100,  range |-> 800,  magSize |-> 30,  reloadTime |-> 2000]
         [] w = "BURST_RIFLE"  -> [damage |-> Hp(28),  fireRate |-> 80,   range |-> 900,  magSize |-> 30,  reloadTime |-> 2000]
         [] w = "LMG"          -> [damage |-> Hp(22),  fireRate |-> 90,   range |-> 1000, magSize |-> 100, reloadTime |-> 4500]
         [] w = "DMR"          -> [damage |-> Hp(48),  fireRate |-> 300,  range |-> 1200, magSize |-> 20,  reloadTime |-> 2500]
         [] w = "SNIPER"       -> [damage |-> Hp(100), fireRate |-> 1200, range |-> 1800, magSize |-> 5,   reloadTime |-> 3000]]

GUN_GAME_ORDER ==
    <<"PISTOL", "SMG", "PDW", "SHOTGUN", "AUTO_SHOTGUN", "RIFLE",
      "BURST_RIFLE", "LMG", "DMR", "SNIPER", "KNIFE">>

\* GUN_GAME_ORDER.indexOf(w), 0-based; -1 when absent.
GunGameIndexOf(w) ==
    IF \E k \in 1..Len(GUN_GAME_ORDER) : GUN_GAME_ORDER[k] = w
    THEN (CHOOSE k \in 1..Len(GUN_GAME_ORDER) :
             /\ GUN_GAME_ORDER[k] = w
             /\ \A j \in 1..(k - 1) : GUN_GAME_ORDER[j] # w) - 1
    ELSE -1

\* ----------------------------------------------------------- math helpers
Abs(n) == IF n < 0 THEN -n ELSE n
Sgn(n) == IF n < 0 THEN -1 ELSE IF n > 0 THEN 1 ELSE 0
Max(a, b) == IF a >= b THEN a ELSE b
Min(a, b) == IF a <= b THEN a ELSE b
Vec(x, y) == [x |-> x, y |-> y]

\* dist(v1, v2) ** 2; every comparison dist(..) < r is made on the squares.
dist2(v1, v2) == (v1.x - v2.x) * (v1.x - v2.x) + (v1.y - v2.y) * (v1.y - v2.y)
DistLess(v1, v2, r) == r > 0 /\ dist2(v1, v2) < r * r
DistGreater(v1, v2, r) == r < 0 \/ dist2(v1, v2) > r * r

\* normalize / atan2 on the lattice: the unit vector of (dx, dy), exact when
\* the vector is axis-aligned, quantised to the dominant axis otherwise.
UnitDir(dx, dy) ==
    IF dx = 0 /\ dy = 0 THEN Vec(0, 0)
    ELSE IF Abs(dx) >= Abs(dy) THEN Vec(Sgn(dx), 0) ELSE Vec(0, Sgn(dy))

\* Math.atan2(dy, dx) as a direction; atan2(0, 0) = 0 points along +x.
Atan2Dir(dy, dx) == IF dx = 0 /\ dy = 0 THEN Vec(1, 0) ELSE UnitDir(dx, dy)

\* A collision test that leaves out the touching case.
checkRectCollideStrict(circle, rect) ==
    LET testX == IF circle.x < rect.x THEN rect.x
                 ELSE IF circle.x > rect.x + rect.w THEN rect.x + rect.w
                 ELSE circle.x
        testY == IF circle.y < rect.y THEN rect.y
                 ELSE IF circle.y > rect.y + rect.h THEN rect.y + rect.h
                 ELSE circle.y
        distX == circle.x - testX
        distY == circle.y - testY
    IN  distX * distX + distY * distY < circle.r * circle.r

checkRectCollide(circle, rect) ==
    LET testX == IF circle.x < rect.x THEN rect.x
                 ELSE IF circle.x > rect.x + rect.w THEN rect.x + rect.w
                 ELSE circle.x
        testY == IF circle.y < rect.y THEN rect.y
                 ELSE IF circle.y > rect.y + rect.h THEN rect.y + rect.h
                 ELSE circle.y
        distX == circle.x - testX
        distY == circle.y - testY
    IN  distX * distX + distY * distY <= circle.r * circle.r

Circle(x, y, r) == [x |-> x, y |-> y, r |-> r]

\* checkWallBetween: nine interior samples of the segment p1-p2 against every
\* WALL whose box meets the segment's bounding box.  The sample coordinates
\* p1 + (p2 - p1) * i / 10 are compared in tenths of a pixel.
checkWallBetween(p1, p2, obs) ==
    LET minX == Min(p1.x, p2.x)
        maxX == Max(p1.x, p2.x)
        minY == Min(p1.y, p2.y)
        maxY == Max(p1.y, p2.y)
        Hit(o, i) ==
            LET x10 == 10 * p1.x + (p2.x - p1.x) * i
                y10 == 10 * p1.y + (p2.y - p1.y) * i
                tx == IF x10 < 10 * o.x THEN 10 * o.x
                      ELSE IF x10 > 10 * (o.x + o.w) THEN 10 * (o.x + o.w) ELSE x10
                ty == IF y10 < 10 * o.y THEN 10 * o.y
                      ELSE IF y10 > 10 * (o.y + o.h) THEN 10 * (o.y + o.h) ELSE y10
            IN  (x10 - tx) * (x10 - tx) + (y10 - ty) * (y10 - ty) <= 20 * 20
    IN  \E k \in 1..Len(obs) :
          /\ obs[k].type = "WALL"
          /\ ~(obs[k].x > maxX \/ obs[k].x + obs[k].w < minX
               \/ obs[k].y > maxY \/ obs[k].y + obs[k].h < minY)
          /\ \E i \in 1..9 : Hit(obs[k], i)


\* ------------------------------------------------------------------ state
VARIABLES
    mode,            \* GameState.mode
    difficulty,      \* GameState.difficulty
    fireMode,        \* settings.fireMode
    mapWidth,        \* GameState.mapWidth
    mapHeight,       \* GameState.mapHeight
    obstacles,       \* GameState.obstacles (static)
    players,         \* GameState.players, in array order
    bullets,         \* GameState.bullets, in array order
    controlPoints,   \* GameState.controlPoints
    loot,            \* GameState.loot
    zone,            \* GameState.zone (present = FALSE outside Battle-Royale)
    camera,          \* GameState.camera
    scores,          \* GameState.scores
    timeRemaining,   \* GameState.timeRemaining, in ms
    killFeed,        \* GameState.killFeed, most recent first
    hardpointTimer,  \* GameState.hardpointTimer
    now,             \* Date.now() as read by the last call of updateGame
    dt,              \* the frame delta the caller passes to updateGame, in ms
    ticks,           \* number of calls of updateGame so far
    lastCounts,      \* per control point, alliedCount/axisCount of the last call
    lastNearest,     \* per player, the nearestEnemy its updateBotAI found last call
    zoneHits,        \* per player, how many calls applied zone damage to it (line 235)
    gameOverTriggered, \* GameCanvas: the ref gameOverTriggered.current
    gameOverCalls,   \* the winners onGameOver was invoked with, oldest first
    creation,        \* createInitialState in progress: settings, the candidate
                     \* point of getSafeSpawn and its attempts; done afterwards
    probe            \* a call of checkRectCollide: its arguments and result

vars ==
    <<mode, difficulty, fireMode, mapWidth, mapHeight, obstacles, players,
      bullets, controlPoints, loot, zone, camera, scores, timeRemaining,
      killFeed, hardpointTimer, now, dt, ticks, lastCounts, lastNearest,
      zoneHits, gameOverTriggered, gameOverCalls, creation, probe>>

\* The viewport the caller passes (window size).
View == [w |-> 800, h |-> 600]

NullTarget == [kind |-> "null", x |-> 0, y |-> 0, ref |-> 0]
PointTarget(v) == [kind |-> "point", x |-> v.x, y |-> v.y, ref |-> 0]
\* bot.target = nearestEnemy.pos stores the enemy's position OBJECT: the
\* target follows that player's position until the player's pos is replaced.
RefTarget(j) == [kind |-> "ref", x |-> 0, y |-> 0, ref |-> j]
TargetPos(ps, t) == IF t.kind = "ref" THEN ps[t.ref].pos ELSE Vec(t.x, t.y)

NoZone ==
    [present |-> FALSE, x |-> 0, y |-> 0, radius |-> 0, targetRadius2 |-> 0,
     shrinkTimer |-> 0, state |-> "WAITING", damagePerTick |-> 0]

isTeamModeOf(m) == m # "FFA" /\ m # "GUN_GAME" /\ m # "BATTLE_ROYALE"
isTeamMode == isTeamModeOf(mode)
isBR == mode = "BATTLE_ROYALE"

\* state.players.find(p => p.id === id): its index, 0 when there is none.
FindPlayer(ps, id) ==
    IF \E k \in 1..Len(ps) : ps[k].id = id
    THEN CHOOSE k \in 1..Len(ps) :
            ps[k].id = id /\ \A j \in 1..(k - 1) : ps[j].id # id
    ELSE 0

DisplayName(id) == IF id = "player" THEN "YOU" ELSE id

\* The working copy of the mutable part of GameState inside one call.
Game ==
    [players |-> players, bullets |-> bullets, controlPoints |-> controlPoints,
     loot |-> loot, zone |-> zone, scores |-> scores, killFeed |-> killFeed,
     hardpointTimer |-> hardpointTimer,
     counts |-> [k \in 1..Len(controlPoints) |-> [seen |-> FALSE, allied |-> 0, axis |-> 0]],
     nearest |-> [k \in 1..Len(players) |-> ""],
     zoneHits |-> zoneHits]

\* --------------------------------------------------------------- zone logic
\* A zone that grows by the same amount instead.
ZoneShrinkStepReversed(w, d) == 0 - (w * d) \div 30000

\* (mapWidth / 300) * (dt / 1000) pixels, in tenths of a pixel.
ZoneShrinkStep(w, d) == (w * d) \div 30000

ZoneLogic(z, w, d) ==
    IF z.state = "WAITING"
    THEN LET t == z.shrinkTimer - d
         IN  [z EXCEPT !.shrinkTimer = t,
                       !.state = IF t <= 0 THEN "SHRINKING" ELSE "WAITING"]
    ELSE LET r == z.radius - ZoneShrinkStep(w, d)
         IN  IF 2 * r <= z.targetRadius2
             THEN [z EXCEPT !.radius = r,
                            !.state = "WAITING",
                            !.targetRadius2 = IF r < Zr(100) THEN 0 ELSE r,
                            !.shrinkTimer = 30000]
             ELSE [z EXCEPT !.radius = r]

\* dist(p.pos, zone centre) > zone.radius
OutsideZone(pos, z) ==
    z.radius < 0 \/ 100 * dist2(pos, Vec(z.x, z.y)) > z.radius * z.radius

\* Zone damage charged per second of frame time instead of per call.
ZoneDamagePlayerPerSecond(g, i) ==
    LET p == g.players[i]
        h == p.health - g.zone.damagePerTick * (dt \div 1000)
    IN  IF p.active /\ OutsideZone(p.pos, g.zone)
        THEN IF h <= 0
             THEN [g EXCEPT !.players[i].health = h,
                            !.zoneHits[i] = @ + 1,
                            !.players[i].active = FALSE,
                            !.players[i].deaths = p.deaths + 1,
                            !.killFeed = <<[killer |-> "ZONE", victim |-> DisplayName(p.id)]>> \o g.killFeed]
             ELSE [g EXCEPT !.players[i].health = h, !.zoneHits[i] = @ + 1]
        ELSE g

\* Zone damage that never takes a player out of play.
ZoneDamagePlayerNoDeath(g, i) ==
    LET p == g.players[i]
    IN  IF p.active /\ OutsideZone(p.pos, g.zone)
        THEN [g EXCEPT !.players[i].health = p.health - g.zone.damagePerTick,
                       !.zoneHits[i] = @ + 1]
        ELSE g

ZoneDamagePlayer(g, i) ==
    LET p == g.players[i]
        h == p.health - g.zone.damagePerTick
    IN  IF p.active /\ OutsideZone(p.pos, g.zone)
        THEN IF h <= 0
             THEN [g EXCEPT !.players[i].health = h,
                            !.zoneHits[i] = @ + 1,
                            !.players[i].active = FALSE,
                            !.players[i].deaths = p.deaths + 1,
                            !.killFeed = <<[killer |-> "ZONE", victim |-> DisplayName(p.id)]>> \o g.killFeed]
             ELSE [g EXCEPT !.players[i].health = h, !.zoneHits[i] = @ + 1]
        ELSE g

RECURSIVE ZoneDamage(_, _)
ZoneDamage(g, i) ==
    IF i > Len(g.players) THEN g ELSE ZoneDamage(ZoneDamagePlayer(g, i), i + 1)

ZoneStep(g) ==
    IF isBR /\ g.zone.present
    THEN ZoneDamage([g EXCEPT !.zone = ZoneLogic(g.zone, mapWidth, dt)], 1)
    ELSE g

\* ------------------------------------------------------------ tryFireWeapon
NewBullet(p) ==
    [active |-> TRUE, pos |-> p.pos, velocity |-> p.angle,
     damage |-> WEAPONS[p.weapon].damage, team |-> p.team, ownerId |-> p.id,
     distanceTraveled |-> 0, maxDistance |-> WEAPONS[p.weapon].range]

\* Pellets for the pump shotgun only.
PelletCountPumpOnly(w) == IF w = "SHOTGUN" THEN 4 ELSE 0

\* The extra bullets of lines 563-580.
PelletCount(w) == IF w = "SHOTGUN" \/ w = "AUTO_SHOTGUN" THEN 4 ELSE 0

\* A guard that tests the fire interval and forgets the ammo test.
CanFireAnyAmmo(p, t) ==
    t - p.lastShotTime >= WEAPONS[p.weapon].fireRate

CanFire(p, t) ==
    /\ ~(p.weapon # "KNIFE" /\ p.ammo <= 0)
    /\ t - p.lastShotTime >= WEAPONS[p.weapon].fireRate

tryFireWeapon(g, i, t) ==
    LET p == g.players[i]
    IN  IF CanFire(p, t)
        THEN [g EXCEPT
                !.players[i].lastShotTime = t,
                !.players[i].ammo = IF p.weapon # "KNIFE" THEN p.ammo - 1 ELSE p.ammo,
                !.bullets = g.bullets \o [k \in 1..(1 + PelletCount(p.weapon)) |-> NewBullet(p)]]
        ELSE g


\* -------------------------------------------------------------- updateBotAI
VisionRange ==
    IF difficulty = "RECRUIT" THEN 400 ELSE IF difficulty = "ELITE" THEN 700 ELSE 500

\* distToCenter > zone.radius * 0.8   (25 d > 2 radius, radius in tenths)
BeyondZoneEdge(pos, z) ==
    z.radius < 0 \/ 625 * dist2(pos, Vec(z.x, z.y)) > 4 * z.radius * z.radius

\* state.loot.find(l => l.active && dist(pos, l.pos) < r): index, 0 if none.
FindLoot(lt, pos, r) ==
    IF \E k \in 1..Len(lt) : lt[k].active /\ DistLess(pos, lt[k].pos, r)
    THEN CHOOSE k \in 1..Len(lt) :
            /\ lt[k].active /\ DistLess(pos, lt[k].pos, r)
            /\ \A j \in 1..(k - 1) : ~(lt[j].active /\ DistLess(pos, lt[j].pos, r))
    ELSE 0

\* A perception loop that leaves out the line-of-sight test.
RECURSIVE ScanEnemiesThroughWalls(_, _, _, _, _)
ScanEnemiesThroughWalls(ps, i, j, best, minD2) ==
    IF j > Len(ps) THEN best
    ELSE LET other == ps[j]
             d2 == dist2(ps[i].pos, other.pos)
             take ==
                 /\ other.active /\ other.id # ps[i].id
                 /\ ~(isTeamMode /\ other.team = ps[i].team)
                 /\ d2 < VisionRange * VisionRange
                 /\ (minD2 < 0 \/ d2 < minD2)
         IN  IF take THEN ScanEnemiesThroughWalls(ps, i, j + 1, j, d2)
             ELSE ScanEnemiesThroughWalls(ps, i, j + 1, best, minD2)

\* The perception loop of lines 626-638: best is the index of nearestEnemy so
\* far (0 = null) and minD2 the square of minDst (-1 = Infinity).
RECURSIVE ScanEnemies(_, _, _, _, _)
ScanEnemies(ps, i, j, best, minD2) ==
    IF j > Len(ps) THEN best
    ELSE LET other == ps[j]
             d2 == dist2(ps[i].pos, other.pos)
             take ==
                 /\ other.active /\ other.id # ps[i].id
                 /\ ~(isTeamMode /\ other.team = ps[i].team)
                 /\ d2 < VisionRange * VisionRange
                 /\ (minD2 < 0 \/ d2 < minD2)
                 /\ ~checkWallBetween(ps[i].pos, other.pos, obstacles)
         IN  IF take THEN ScanEnemies(ps, i, j + 1, j, d2)
             ELSE ScanEnemies(ps, i, j + 1, best, minD2)

\* dist(bot.pos, enemy.pos) < WEAPONS[bot.weapon].range * 0.8
InFiringRange(bot, enemy) ==
    25 * dist2(bot.pos, enemy.pos) < 16 * WEAPONS[bot.weapon].range * WEAPONS[bot.weapon].range

\* The control point a capturing bot heads for (lines 665-671), 0 if none.
TargetCP(cps, bot) ==
    LET Want(k) == IF mode = "HARDPOINT" THEN cps[k].active ELSE cps[k].team # bot.team
    IN  IF \E k \in 1..Len(cps) : Want(k)
        THEN CHOOSE k \in 1..Len(cps) : Want(k) /\ \A j \in 1..(k - 1) : ~Want(j)
        ELSE IF mode = "HARDPOINT" \/ Len(cps) = 0 THEN 0 ELSE 1

FaceDir(from, to) == Atan2Dir(to.y - from.y, to.x - from.x)

\* An engagement in which a bot below a quarter of its health retreats from
\* the enemy it sees instead of attacking it.
BotEngageRetreats(g, i, e, rnd, t) ==
    LET bot == g.players[i]
    IN  IF e # 0
        THEN LET en == g.players[e]
                 g1 == IF bot.state # "ZONE_MOVE"
                       THEN [g EXCEPT !.players[i].state =
                                          IF 4 * bot.health < bot.maxHealth
                                          THEN "RETREAT" ELSE "ATTACK",
                                      !.players[i].target = RefTarget(e),
                                      !.players[i].angle = FaceDir(bot.pos, en.pos)]
                       ELSE [g EXCEPT !.players[i].angle = FaceDir(bot.pos, en.pos)]
             IN  IF InFiringRange(bot, en) /\ rnd.fire
                 THEN tryFireWeapon(g1, i, t)
                 ELSE g1
        ELSE LET reset == bot.state \notin {"CAPTURE", "PATROL", "ZONE_MOVE", "LOOT"}
                 st1 == IF reset THEN "PATROL" ELSE bot.state
                 tg1 == IF reset THEN NullTarget ELSE bot.target
                 objective == mode = "DOMINATION" \/ mode = "HARDPOINT"
                 cp == TargetCP(g.controlPoints, bot)
                 st2 == IF objective THEN "CAPTURE" ELSE st1
                 tg2 == IF objective
                        THEN IF (tg1.kind = "null" \/ rnd.refresh) /\ cp # 0
                             THEN PointTarget(g.controlPoints[cp].pos)
                             ELSE tg1
                        ELSE IF st1 = "PATROL"
                                /\ (tg1.kind = "null"
                                    \/ DistLess(bot.pos, TargetPos(g.players, tg1), 20))
                             THEN PointTarget(rnd.patrol)
                             ELSE tg1
             IN  [g EXCEPT !.players[i].state = st2,
                           !.players[i].target = tg2,
                           !.players[i].angle =
                               IF tg2.kind # "null"
                               THEN FaceDir(bot.pos, TargetPos(g.players, tg2))
                               ELSE bot.angle]

\* An engagement in which a bot in ZONE_MOVE that is back within 0.8 x the
\* zone radius of the centre attacks the enemy it sees.
BotEngageOnceSafe(g, i, e, rnd, t) ==
    LET bot == g.players[i]
    IN  IF e # 0
        THEN LET en == g.players[e]
                 g1 == IF bot.state # "ZONE_MOVE" \/ ~BeyondZoneEdge(bot.pos, g.zone)
                       THEN [g EXCEPT !.players[i].state = "ATTACK",
                                      !.players[i].target = RefTarget(e),
                                      !.players[i].angle = FaceDir(bot.pos, en.pos)]
                       ELSE [g EXCEPT !.players[i].angle = FaceDir(bot.pos, en.pos)]
             IN  IF InFiringRange(bot, en) /\ rnd.fire
                 THEN tryFireWeapon(g1, i, t)
                 ELSE g1
        ELSE BotEngageRetreats(g, i, e, rnd, t)

\* Lines 640-684, after perception found enemy index e (0 = none).
BotEngage(g, i, e, rnd, t) ==
    LET bot == g.players[i]
    IN  IF e # 0
        THEN LET en == g.players[e]
                 g1 == IF bot.state # "ZONE_MOVE"
                       THEN [g EXCEPT !.players[i].state = "ATTACK",
                                      !.players[i].target = RefTarget(e),
                                      !.players[i].angle = FaceDir(bot.pos, en.pos)]
                       ELSE [g EXCEPT !.players[i].angle = FaceDir(bot.pos, en.pos)]
             IN  IF InFiringRange(bot, en) /\ rnd.fire
                 THEN tryFireWeapon(g1, i, t)
                 ELSE g1
        ELSE LET reset == bot.state \notin {"CAPTURE", "PATROL", "ZONE_MOVE", "LOOT"}
                 st1 == IF reset THEN "PATROL" ELSE bot.state
                 tg1 == IF reset THEN NullTarget ELSE bot.target
                 objective == mode = "DOMINATION" \/ mode = "HARDPOINT"
                 cp == TargetCP(g.controlPoints, bot)
                 st2 == IF objective THEN "CAPTURE" ELSE st1
                 tg2 == IF objective
                        THEN IF (tg1.kind = "null" \/ rnd.refresh) /\ cp # 0
                             THEN PointTarget(g.controlPoints[cp].pos)
                             ELSE tg1
                        ELSE IF st1 = "PATROL"
                                /\ (tg1.kind = "null"
                                    \/ DistLess(bot.pos, TargetPos(g.players, tg1), 20))
                             THEN PointTarget(rnd.patrol)
                             ELSE tg1
             IN  [g EXCEPT !.players[i].state = st2,
                           !.players[i].target = tg2,
                           !.players[i].angle =
                               IF tg2.kind # "null"
                               THEN FaceDir(bot.pos, TargetPos(g.players, tg2))
                               ELSE bot.angle]

updateBotAI(g, i, rnd, t) ==
    LET bot == g.players[i]
        z == g.zone
        centre == Vec(z.x, z.y)
        inBR == isBR /\ z.present
        flee == inBR /\ BeyondZoneEdge(bot.pos, z)
        looting == inBR /\ ~flee /\ bot.weapon = "KNIFE"
        li == IF looting THEN FindLoot(g.loot, bot.pos, 500) ELSE 0
        g1 == IF flee
              THEN [g EXCEPT !.players[i].state = "ZONE_MOVE",
                             !.players[i].target = PointTarget(centre),
                             !.players[i].angle = FaceDir(bot.pos, centre)]
              ELSE IF looting
              THEN [g EXCEPT !.players[i].state = "LOOT"]
              ELSE g
    IN  IF li # 0
        THEN [g1 EXCEPT !.players[i].target = PointTarget(g.loot[li].pos),
                        !.players[i].angle = FaceDir(bot.pos, g.loot[li].pos)]
        ELSE LET e == ScanEnemies(g1.players, i, 1, 0, -1)
             IN  BotEngage([g1 EXCEPT !.nearest[i] =
                                IF e = 0 THEN "none" ELSE g1.players[e].id],
                           i, e, rnd, t)


\* ------------------------------------------------- 1. UPDATE PLAYERS (human)
NoInput ==
    [w |-> FALSE, s |-> FALSE, a |-> FALSE, d |-> FALSE, r |-> FALSE,
     shift |-> FALSE, mouseX |-> 0, mouseY |-> 0, mouseDown |-> FALSE]

HumanMoveDir(input) ==
    Vec((IF input.d THEN 1 ELSE 0) - (IF input.a THEN 1 ELSE 0),
        (IF input.s THEN 1 ELSE 0) - (IF input.w THEN 1 ELSE 0))

MouseWorld(input) == Vec(input.mouseX + camera.x, input.mouseY + camera.y)

\* Lines 274-280: the cursor is over an active enemy in line of sight.
AutoTargetFound(g, i, input) ==
    LET p == g.players[i]
    IN  \E k \in 1..Len(g.players) :
          LET enemy == g.players[k]
          IN  /\ enemy.active
              /\ enemy.id # p.id
              /\ (isTeamMode => enemy.team # p.team)
              /\ DistLess(MouseWorld(input), enemy.pos, enemy.radius + 15)
              /\ ~checkWallBetween(p.pos, enemy.pos, obstacles)

\* A reload request that is honoured while a reload is already running.
HumanControlReloadAgain(g, i, input, t) ==
    LET p == g.players[i]
        mw == MouseWorld(input)
        g1 == [g EXCEPT !.players[i].angle = Atan2Dir(mw.y - p.pos.y, mw.x - p.pos.x)]
        shouldShoot ==
            input.mouseDown \/ (fireMode = "AUTO" /\ AutoTargetFound(g1, i, input))
        g2 == IF shouldShoot /\ ~p.isReloading /\ p.ammo > 0
              THEN tryFireWeapon(g1, i, t)
              ELSE g1
        p2 == g2.players[i]
    IN  IF input.r /\ p2.ammo < WEAPONS[p2.weapon].magSize /\ p2.weapon # "KNIFE"
        THEN [g2 EXCEPT !.players[i].isReloading = TRUE,
                        !.players[i].reloadTimer = t + WEAPONS[p2.weapon].reloadTime]
        ELSE g2

\* Lines 256-293: aim, fire decision, reload request.
HumanControl(g, i, input, t) ==
    LET p == g.players[i]
        mw == MouseWorld(input)
        g1 == [g EXCEPT !.players[i].angle = Atan2Dir(mw.y - p.pos.y, mw.x - p.pos.x)]
        shouldShoot ==
            input.mouseDown \/ (fireMode = "AUTO" /\ AutoTargetFound(g1, i, input))
        g2 == IF shouldShoot /\ ~p.isReloading /\ p.ammo > 0
              THEN tryFireWeapon(g1, i, t)
              ELSE g1
        p2 == g2.players[i]
    IN  IF input.r /\ ~p2.isReloading /\ p2.ammo < WEAPONS[p2.weapon].magSize
           /\ p2.weapon # "KNIFE"
        THEN [g2 EXCEPT !.players[i].isReloading = TRUE,
                        !.players[i].reloadTimer = t + WEAPONS[p2.weapon].reloadTime]
        ELSE g2

\* ----------------------------------------------------- movement (300-352)
\* speed * SPRINT_MULTIPLIER (1.5), exact for even speeds.
Sprinted(speed) == (3 * speed) \div 2

NearbyObstacles(pos) ==
    {k \in 1..Len(obstacles) :
        /\ Abs(obstacles[k].x - pos.x) < 200
        /\ Abs(obstacles[k].y - pos.y) < 200
        /\ obstacles[k].type # "WINDOW"}

MovePlayer(g, i, humanDir, input) ==
    LET p == g.players[i]
        hasTarget == p.isBot /\ p.target.kind # "null"
        tp == TargetPos(g.players, p.target)
        far == dist2(p.pos, tp) > 10 * 10
        moveDir == IF hasTarget
                   THEN IF far THEN UnitDir(tp.x - p.pos.x, tp.y - p.pos.y) ELSE Vec(0, 0)
                   ELSE IF ~p.isBot THEN UnitDir(humanDir.x, humanDir.y)
                   ELSE Vec(0, 0)
        target1 == IF hasTarget /\ ~far /\ p.state # "ZONE_MOVE" THEN NullTarget ELSE p.target
        step == IF ~p.isBot /\ input.shift THEN Sprinted(p.speed) ELSE p.speed
        newX == p.pos.x + moveDir.x * step
        newY == p.pos.y + moveDir.y * step
        near == NearbyObstacles(p.pos)
        isStuck == \E k \in near :
                      checkRectCollide(Circle(p.pos.x, p.pos.y, p.radius), obstacles[k])
        collidedX == \E k \in near :
                      checkRectCollide(Circle(newX, p.pos.y, p.radius), obstacles[k])
        collidedY == \E k \in near :
                      checkRectCollide(Circle(p.pos.x, newY, p.radius), obstacles[k])
        pos1 == IF isStuck THEN Vec(newX, newY)
                ELSE Vec(IF collidedX THEN p.pos.x ELSE newX,
                         IF collidedY THEN p.pos.y ELSE newY)
    IN  IF humanDir.x # 0 \/ humanDir.y # 0 \/ hasTarget
        THEN [g EXCEPT !.players[i].pos = pos1, !.players[i].target = target1]
        ELSE g

\* Reload completion (354-358).
FinishReload(g, i, t) ==
    LET p == g.players[i]
    IN  IF p.isReloading /\ t > p.reloadTimer
        THEN [g EXCEPT !.players[i].ammo = WEAPONS[p.weapon].magSize,
                       !.players[i].isReloading = FALSE]
        ELSE g

\* A pickup that leaves the item on the ground.
PickupLootLeavesItem(g, i) ==
    LET p == g.players[i]
        li == IF isBR /\ p.weapon = "KNIFE" THEN FindLoot(g.loot, p.pos, p.radius + 15) ELSE 0
    IN  IF li # 0
        THEN [g EXCEPT !.players[i].weapon = g.loot[li].weapon,
                       !.players[i].ammo = WEAPONS[g.loot[li].weapon].magSize]
        ELSE g

\* Loot pickup, Battle-Royale only (360-374).
PickupLoot(g, i) ==
    LET p == g.players[i]
        li == IF isBR /\ p.weapon = "KNIFE" THEN FindLoot(g.loot, p.pos, p.radius + 15) ELSE 0
    IN  IF li # 0
        THEN [g EXCEPT !.players[i].weapon = g.loot[li].weapon,
                       !.players[i].ammo = WEAPONS[g.loot[li].weapon].magSize,
                       !.loot[li].active = FALSE]
        ELSE g

\* World-bounds clamp (377-378).
ClampToMap(g, i) ==
    LET p == g.players[i]
    IN  [g EXCEPT !.players[i].pos =
            Vec(Max(0, Min(mapWidth, p.pos.x)), Max(0, Min(mapHeight, p.pos.y)))]

\* One iteration of newState.players.forEach (248-379).
UpdatePlayer(g, i, input, rnd, t) ==
    LET p == g.players[i]
    IN  IF ~p.active THEN g
        ELSE LET g1 == IF ~p.isBot THEN HumanControl(g, i, input, t)
                       ELSE updateBotAI(g, i, rnd, t)
                 hd == IF ~p.isBot THEN HumanMoveDir(input) ELSE Vec(0, 0)
             IN  ClampToMap(PickupLoot(FinishReload(MovePlayer(g1, i, hd, input), i, t), i), i)

RECURSIVE UpdatePlayers(_, _, _, _, _)
UpdatePlayers(g, i, input, rnd, t) ==
    IF i > Len(g.players) THEN g
    ELSE UpdatePlayers(UpdatePlayer(g, i, input, rnd[i], t), i + 1, input, rnd, t)


\* --------------------------------------------------------------- handleKill
\* A progression that wraps around to the first weapon after the last one.
GunGameKillWraps(g, k) ==
    LET killer == g.players[k]
        currentIndex == GunGameIndexOf(killer.weapon)
        next == GUN_GAME_ORDER[((currentIndex + 1) % Len(GUN_GAME_ORDER)) + 1]
    IN  [g EXCEPT !.players[k].weapon = next,
                  !.players[k].ammo = WEAPONS[next].magSize]

\* Gun-Game branch of handleKill (721-733) for killer index k.
GunGameKill(g, k) ==
    LET killer == g.players[k]
        currentIndex == GunGameIndexOf(killer.weapon)
    IN  IF currentIndex < Len(GUN_GAME_ORDER) - 1
        THEN LET next == GUN_GAME_ORDER[currentIndex + 2]
             IN  [g EXCEPT !.players[k].weapon = next,
                           !.players[k].ammo = WEAPONS[next].magSize]
        ELSE LET t1 == IF killer.team = "NONE" THEN "ALLIED" ELSE killer.team
                 t2 == IF killer.id = "player" THEN "ALLIED" ELSE "AXIS"
             IN  [g EXCEPT !.scores = [[g.scores EXCEPT ![t1] = 100] EXCEPT ![t2] = 100]]

\* A score update whose killer bonus is not limited to team NONE.
KillScoreBonusAlways(g, b, k) ==
    IF mode # "GUN_GAME" /\ mode # "BATTLE_ROYALE"
    THEN LET s1 == [g.scores EXCEPT ![b.team] = @ + 10]
         IN  IF k # 0
             THEN IF g.players[k].id = "player"
                  THEN [g EXCEPT !.scores = [s1 EXCEPT !["ALLIED"] = @ + 10]]
                  ELSE [g EXCEPT !.scores = [s1 EXCEPT !["AXIS"] = @ + 10]]
             ELSE [g EXCEPT !.scores = s1]
    ELSE g

\* Score update of handleKill (736-743).
KillScore(g, b, k) ==
    IF mode # "GUN_GAME" /\ mode # "BATTLE_ROYALE"
    THEN LET s1 == [g.scores EXCEPT ![b.team] = @ + 10]
         IN  IF b.team = "NONE" /\ k # 0
             THEN IF g.players[k].id = "player"
                  THEN [g EXCEPT !.scores = [s1 EXCEPT !["ALLIED"] = @ + 10]]
                  ELSE [g EXCEPT !.scores = [s1 EXCEPT !["AXIS"] = @ + 10]]
             ELSE [g EXCEPT !.scores = s1]
    ELSE g

\* killFeed.unshift(..); if (killFeed.length > 5) killFeed.pop()
PushKillFeed(feed, entry) ==
    LET f == <<entry>> \o feed
    IN  IF Len(f) > 5 THEN SubSeq(f, 1, Len(f) - 1) ELSE f

\* A kill that marks the victim and credits nobody.
handleKillNoCredit(g, b, v) ==
    LET g1 == [g EXCEPT !.players[v].active = FALSE,
                        !.players[v].deaths = @ + 1]
        k == FindPlayer(g1.players, b.ownerId)
        g4 == KillScore(g1, b, k)
    IN  [g4 EXCEPT !.killFeed =
            PushKillFeed(g4.killFeed,
                [killer |-> IF k # 0 THEN DisplayName(g4.players[k].id) ELSE "UNK",
                 victim |-> DisplayName(g4.players[v].id)])]

handleKill(g, b, v) ==
    LET g1 == [g EXCEPT !.players[v].active = FALSE,
                        !.players[v].deaths = @ + 1]
        k == FindPlayer(g1.players, b.ownerId)
        g2 == IF k # 0 THEN [g1 EXCEPT !.players[k].kills = @ + 1] ELSE g1
        g3 == IF k # 0 /\ mode = "GUN_GAME" THEN GunGameKill(g2, k) ELSE g2
        g4 == KillScore(g3, b, k)
    IN  [g4 EXCEPT !.killFeed =
            PushKillFeed(g4.killFeed,
                [killer |-> IF k # 0 THEN DisplayName(g4.players[k].id) ELSE "UNK",
                 victim |-> DisplayName(g4.players[v].id)])]

\* ------------------------------------------------------- 2. UPDATE BULLETS
BulletStep == 25

\* A hit test without the team and owner exclusions.
BulletTargetsAnyone(ps, b, j) ==
    /\ ps[j].active
    /\ DistLess(b.pos, ps[j].pos, ps[j].radius + 5)

\* The player a bullet at pos hits (392-400): index, 0 if none.
BulletTargets(ps, b, j) ==
    /\ ps[j].active
    /\ IF isTeamMode THEN ps[j].team # b.team ELSE ps[j].id # b.ownerId
    /\ DistLess(b.pos, ps[j].pos, ps[j].radius + 5)

HitPlayer(ps, b) ==
    IF \E j \in 1..Len(ps) : BulletTargets(ps, b, j)
    THEN CHOOSE j \in 1..Len(ps) :
            BulletTargets(ps, b, j) /\ \A i \in 1..(j - 1) : ~BulletTargets(ps, b, i)
    ELSE 0

\* Hit Walls (412-421).
HitsWall(b) ==
    \E k \in 1..Len(obstacles) :
       LET w == obstacles[k]
       IN  /\ w.type # "WINDOW" /\ w.type # "COVER_HALF"
           /\ ~(b.pos.x < w.x \/ b.pos.x > w.x + w.w \/ b.pos.y < w.y \/ b.pos.y > w.y + w.h)
           /\ checkRectCollide(Circle(b.pos.x, b.pos.y, 2), w)

\* A range test that already trips at the maximum distance itself.
RangeReached(b) == b.distanceTraveled >= b.maxDistance

\* b.distanceTraveled > b.maxDistance
RangeExceeded(b) == b.distanceTraveled > b.maxDistance

AdvanceBullet(b) ==
    LET b1 == [b EXCEPT !.pos = Vec(b.pos.x + b.velocity.x * BulletStep,
                                    b.pos.y + b.velocity.y * BulletStep),
                        !.distanceTraveled = b.distanceTraveled + BulletStep]
    IN  IF RangeExceeded(b1) THEN [b1 EXCEPT !.active = FALSE] ELSE b1

\* One iteration of newState.bullets.forEach (383-422).
UpdateBullet(g, n) ==
    LET b1 == AdvanceBullet(g.bullets[n])
        j == HitPlayer(g.players, b1)
        b2 == IF j # 0 THEN [b1 EXCEPT !.active = FALSE] ELSE b1
        g1 == IF j # 0
              THEN LET h == g.players[j].health - b1.damage
                       gh == [g EXCEPT !.players[j].health = h]
                   IN  IF h <= 0 THEN handleKill(gh, b2, j) ELSE gh
              ELSE g
        b3 == IF HitsWall(b2) THEN [b2 EXCEPT !.active = FALSE] ELSE b2
    IN  [g1 EXCEPT !.bullets[n] = b3]

RECURSIVE UpdateBulletsFrom(_, _)
UpdateBulletsFrom(g, n) ==
    IF n > Len(g.bullets) THEN g ELSE UpdateBulletsFrom(UpdateBullet(g, n), n + 1)

ActiveBullets(bs) == SelectSeq(bs, LAMBDA b : b.active)

UpdateBullets(g) == UpdateBulletsFrom([g EXCEPT !.bullets = ActiveBullets(g.bullets)], 1)


\* ------------------------------------------------ 3. UPDATE CONTROL POINTS
HARDPOINT_PERIOD == 1800

\* A rotation that switches the next point on and leaves the old one on.
RotateHardpointKeepsOld(g) ==
    IF mode = "HARDPOINT"
    THEN LET timer == g.hardpointTimer - 1
             cps == g.controlPoints
             currentIdx ==
                 IF \E k \in 1..Len(cps) : cps[k].active
                 THEN (CHOOSE k \in 1..Len(cps) :
                          cps[k].active /\ \A j \in 1..(k - 1) : ~cps[j].active) - 1
                 ELSE -1
             nextIdx == (currentIdx + 1) % Len(cps)
         IN  IF timer <= 0
             THEN [g EXCEPT
                     !.hardpointTimer = HARDPOINT_PERIOD,
                     !.controlPoints =
                         [k \in 1..Len(cps) |->
                            [cps[k] EXCEPT !.active = (cps[k].active \/ k - 1 = nextIdx),
                                           !.captureProgress = 0,
                                           !.team = "NONE"]]]
             ELSE [g EXCEPT !.hardpointTimer = timer]
    ELSE g

\* A rotation that moves the hill on and resets no control point.
RotateHardpointNoReset(g) ==
    IF mode = "HARDPOINT"
    THEN LET timer == g.hardpointTimer - 1
             cps == g.controlPoints
             currentIdx ==
                 IF \E k \in 1..Len(cps) : cps[k].active
                 THEN (CHOOSE k \in 1..Len(cps) :
                          cps[k].active /\ \A j \in 1..(k - 1) : ~cps[j].active) - 1
                 ELSE -1
             nextIdx == (currentIdx + 1) % Len(cps)
         IN  IF timer <= 0
             THEN [g EXCEPT
                     !.hardpointTimer = HARDPOINT_PERIOD,
                     !.controlPoints =
                         [k \in 1..Len(cps) |-> [cps[k] EXCEPT !.active = (k - 1 = nextIdx)]]]
             ELSE [g EXCEPT !.hardpointTimer = timer]
    ELSE g

\* Hardpoint rotation (427-437).
RotateHardpoint(g) ==
    IF mode = "HARDPOINT"
    THEN LET timer == g.hardpointTimer - 1
             cps == g.controlPoints
             currentIdx ==
                 IF \E k \in 1..Len(cps) : cps[k].active
                 THEN (CHOOSE k \in 1..Len(cps) :
                          cps[k].active /\ \A j \in 1..(k - 1) : ~cps[j].active) - 1
                 ELSE -1
             nextIdx == (currentIdx + 1) % Len(cps)
         IN  IF timer <= 0
             THEN [g EXCEPT
                     !.hardpointTimer = HARDPOINT_PERIOD,
                     !.controlPoints =
                         [k \in 1..Len(cps) |->
                            [cps[k] EXCEPT !.active = (k - 1 = nextIdx),
                                           !.captureProgress = 0,
                                           !.team = "NONE"]]]
             ELSE [g EXCEPT !.hardpointTimer = timer]
    ELSE g

\* A count that forgets the p.active test.
PresenceCountsFallen(ps, cp, tm) ==
    Cardinality({k \in 1..Len(ps) :
        DistLess(ps[k].pos, cp.pos, cp.radius) /\ ps[k].team = tm})

\* Number of active players of team tm inside control point cp (444-449).
Presence(ps, cp, tm) ==
    Cardinality({k \in 1..Len(ps) :
        ps[k].active /\ DistLess(ps[k].pos, cp.pos, cp.radius) /\ ps[k].team = tm})

\* A contest that flips the owner at 100 but forgets to reset the progress.
ContestNoReset(cp, alliedCount, axisCount) ==
    LET Capture(tm) ==
            IF cp.team # tm
            THEN [cp EXCEPT !.captureProgress = cp.captureProgress + Cp(1),
                            !.team = IF cp.captureProgress + Cp(1) >= Cp(100)
                                     THEN tm ELSE cp.team]
            ELSE cp
    IN  IF alliedCount > 0 /\ axisCount = 0 THEN Capture("ALLIED")
        ELSE IF axisCount > 0 /\ alliedCount = 0 THEN Capture("AXIS")
        ELSE IF alliedCount = 0 /\ axisCount = 0 /\ cp.captureProgress > 0
        THEN [cp EXCEPT !.captureProgress = Max(0, cp.captureProgress - 1)]
        ELSE cp

\* A contest in which an abandoned point also loses its owner while decaying.
ContestDecayNeutralises(cp, alliedCount, axisCount) ==
    LET Capture(tm) ==
            IF cp.team # tm
            THEN IF cp.captureProgress + Cp(1) >= Cp(100)
                 THEN [cp EXCEPT !.team = tm, !.captureProgress = 0]
                 ELSE [cp EXCEPT !.captureProgress = cp.captureProgress + Cp(1)]
            ELSE cp
    IN  IF alliedCount > 0 /\ axisCount = 0 THEN Capture("ALLIED")
        ELSE IF axisCount > 0 /\ alliedCount = 0 THEN Capture("AXIS")
        ELSE IF alliedCount = 0 /\ axisCount = 0 /\ cp.captureProgress > 0
        THEN [cp EXCEPT !.captureProgress = Max(0, cp.captureProgress - 1),
                        !.team = "NONE"]
        ELSE cp

\* A contest in which progress decays when both teams are present, too.
ContestDecayContested(cp, alliedCount, axisCount) ==
    LET Capture(tm) ==
            IF cp.team # tm
            THEN IF cp.captureProgress + Cp(1) >= Cp(100)
                 THEN [cp EXCEPT !.team = tm, !.captureProgress = 0]
                 ELSE [cp EXCEPT !.captureProgress = cp.captureProgress + Cp(1)]
            ELSE cp
    IN  IF alliedCount > 0 /\ axisCount = 0 THEN Capture("ALLIED")
        ELSE IF axisCount > 0 /\ alliedCount = 0 THEN Capture("AXIS")
        ELSE IF cp.captureProgress > 0
        THEN [cp EXCEPT !.captureProgress = Max(0, cp.captureProgress - 1)]
        ELSE cp

\* A contest without the decay branch.
ContestNeverDecays(cp, alliedCount, axisCount) ==
    LET Capture(tm) ==
            IF cp.team # tm
            THEN IF cp.captureProgress + Cp(1) >= Cp(100)
                 THEN [cp EXCEPT !.team = tm, !.captureProgress = 0]
                 ELSE [cp EXCEPT !.captureProgress = cp.captureProgress + Cp(1)]
            ELSE cp
    IN  IF alliedCount > 0 /\ axisCount = 0 THEN Capture("ALLIED")
        ELSE IF axisCount > 0 /\ alliedCount = 0 THEN Capture("AXIS")
        ELSE cp

\* The capture contest of one point (451-471); progress in units of 0.5.
Contest(cp, alliedCount, axisCount) ==
    LET Capture(tm) ==
            IF cp.team # tm
            THEN IF cp.captureProgress + Cp(1) >= Cp(100)
                 THEN [cp EXCEPT !.team = tm, !.captureProgress = 0]
                 ELSE [cp EXCEPT !.captureProgress = cp.captureProgress + Cp(1)]
            ELSE cp
    IN  IF alliedCount > 0 /\ axisCount = 0 THEN Capture("ALLIED")
        ELSE IF axisCount > 0 /\ alliedCount = 0 THEN Capture("AXIS")
        ELSE IF alliedCount = 0 /\ axisCount = 0 /\ cp.captureProgress > 0
        THEN [cp EXCEPT !.captureProgress = Max(0, cp.captureProgress - 1)]
        ELSE cp

\* One iteration of newState.controlPoints.forEach (439-476).
UpdateControlPoint(g, c, t) ==
    LET cp == g.controlPoints[c]
        alliedCount == Presence(g.players, cp, "ALLIED")
        axisCount == Presence(g.players, cp, "AXIS")
        cp1 == Contest(cp, alliedCount, axisCount)
        g1 == [g EXCEPT !.controlPoints[c] = cp1,
                        !.counts[c] = [seen |-> TRUE, allied |-> alliedCount, axis |-> axisCount]]
    IN  IF ~cp.active /\ mode = "HARDPOINT" THEN g
        ELSE IF mode = "HARDPOINT" /\ cp1.team # "NONE" /\ t % 60 = 0
        THEN [g1 EXCEPT !.scores[cp1.team] = @ + 1]
        ELSE g1

RECURSIVE UpdateControlPointsFrom(_, _, _)
UpdateControlPointsFrom(g, c, t) ==
    IF c > Len(g.controlPoints) THEN g
    ELSE UpdateControlPointsFrom(UpdateControlPoint(g, c, t), c + 1, t)

\* Domination scoring (478-484): one point per owned control point.
RECURSIVE DominationScore(_, _)
DominationScore(g, c) ==
    IF c > Len(g.controlPoints) THEN g
    ELSE LET tm == g.controlPoints[c].team
         IN  DominationScore(
                 IF tm # "NONE" THEN [g EXCEPT !.scores[tm] = @ + 1] ELSE g, c + 1)

UpdateControlPoints(g, t) ==
    IF mode = "DOMINATION" \/ mode = "HARDPOINT"
    THEN LET g1 == UpdateControlPointsFrom(RotateHardpoint(g), 1, t)
         IN  IF mode = "DOMINATION" /\ t % 60 = 0 THEN DominationScore(g1, 1) ELSE g1
    ELSE g

\* -------------------------------------------------------------- 4. RESPAWN
\* getSpawnPoint (mapGenerator): v is a point the sampler can return for team.
IsSpawnPoint(team, v, w, h) ==
    /\ v.x >= 100 /\ v.x < w - 100
    /\ IF team = "ALLIED" THEN v.y > h - 300 /\ v.y <= h - 100
       ELSE IF team = "AXIS" THEN v.y >= 100 /\ v.y < 300
       ELSE v.y >= 100 /\ v.y < h - 100

ClearOfObstacles(v, r) ==
    \A k \in 1..Len(obstacles) : ~checkRectCollide(Circle(v.x, v.y, r), obstacles[k])

\* A placement that gives up after three re-draws.
RespawnPosThreeRedraws(samples) ==
    IF \E a \in 1..3 : ClearOfObstacles(samples[a], PLAYER_RADIUS)
    THEN samples[CHOOSE a \in 1..3 :
                    /\ ClearOfObstacles(samples[a], PLAYER_RADIUS)
                    /\ \A c \in 1..(a - 1) : ~ClearOfObstacles(samples[c], PLAYER_RADIUS)]
    ELSE samples[4]

\* Lines 495-506: samples[1] is the first draw, samples[2..6] the re-draws.
RespawnPos(samples) ==
    IF \E a \in 1..5 : ClearOfObstacles(samples[a], PLAYER_RADIUS)
    THEN samples[CHOOSE a \in 1..5 :
                    /\ ClearOfObstacles(samples[a], PLAYER_RADIUS)
                    /\ \A c \in 1..(a - 1) : ~ClearOfObstacles(samples[c], PLAYER_RADIUS)]
    ELSE samples[6]

RespawnPlayer(g, i, rnd) ==
    LET p == g.players[i]
        old == p.pos
    IN  IF ~p.active /\ rnd.go
        THEN [g EXCEPT !.players =
                [k \in 1..Len(g.players) |->
                   IF k = i
                   THEN [p EXCEPT !.active = TRUE,
                                  !.health = p.maxHealth,
                                  !.pos = RespawnPos(rnd.samples),
                                  !.ammo = WEAPONS[p.weapon].magSize]
                   ELSE IF g.players[k].target.kind = "ref" /\ g.players[k].target.ref = i
                   THEN [g.players[k] EXCEPT !.target = PointTarget(old)]
                   ELSE g.players[k]]]
        ELSE g

RECURSIVE RespawnFrom(_, _, _)
RespawnFrom(g, i, rnd) ==
    IF i > Len(g.players) THEN g
    ELSE RespawnFrom(RespawnPlayer(g, i, rnd[i]), i + 1, rnd)

\* A respawn step that runs in every mode.
RespawnEveryMode(g, rnd) == RespawnFrom(g, 1, rnd)

\* if (!isBR) newState.players.forEach(...)  (487-516)
Respawn(g, rnd) == IF ~isBR THEN RespawnFrom(g, 1, rnd) ELSE g

\* -------------------------------------------------------- 5. CAMERA FOLLOW
CameraFollow(ps, cam) ==
    LET k == FindPlayer(ps, "player")
    IN  IF k # 0 THEN Vec(ps[k].pos.x - View.w \div 2, ps[k].pos.y - View.h \div 2)
        ELSE cam

\* --------------------------------------------------------------- updateGame
\* One call updateGame(state, input, dt, settings, viewW, viewH) in which
\* Date.now() returns t and the Math.random() draws are rnd.
\* Steps 1-3 of the call (zone, players, bullets, control points).
FrameBody(input, rnd, t) ==
    UpdateControlPoints(UpdateBullets(
        UpdatePlayers(ZoneStep(Game), 1, input, rnd, t)), t)

\* The state the call returns, from its working copy g.
Commit(g, t) ==
    /\ timeRemaining' = Max(0, timeRemaining - dt)
    /\ players' = g.players
    /\ bullets' = g.bullets
    /\ controlPoints' = g.controlPoints
    /\ loot' = g.loot
    /\ zone' = g.zone
    /\ scores' = g.scores
    /\ killFeed' = g.killFeed
    /\ hardpointTimer' = g.hardpointTimer
    /\ camera' = CameraFollow(g.players, camera)
    /\ lastCounts' = g.counts
    /\ lastNearest' = g.nearest
    /\ zoneHits' = g.zoneHits
    /\ now' = t
    /\ ticks' = ticks + 1
    /\ UNCHANGED <<mode, difficulty, fireMode, mapWidth, mapHeight, obstacles, dt,
                   creation, probe>>

updateGame(input, rnd, t) ==
    /\ Commit(Respawn(FrameBody(input, rnd, t), rnd), t)
    /\ UNCHANGED <<gameOverTriggered, gameOverCalls>>

\* ------------------------------------------------- render: win condition
\* A win check that gives a drawn match to ALLIED.
WinCheckTieToAllied(g, left) ==
    LET ps == g.players
        activePlayers == {i \in 1..Len(ps) : ps[i].active}
        k == FindPlayer(ps, "player")
        \* activePlayers[0] is the human
        humanSurvives == \E i \in activePlayers :
                            /\ ps[i].id = "player"
                            /\ \A j \in activePlayers : i <= j
        Quiet == [scores |-> g.scores, calls |-> <<>>]
    IN  IF gameOverTriggered THEN Quiet
        ELSE IF isBR
        THEN IF Cardinality(activePlayers) <= 1
             THEN IF humanSurvives
                  THEN [scores |-> [g.scores EXCEPT !["ALLIED"] = 999],
                        calls |-> <<"ALLIED">>]
                  ELSE [scores |-> [g.scores EXCEPT !["AXIS"] = 999],
                        calls |-> <<"AXIS">>]
             ELSE IF k # 0 /\ ~ps[k].active
             THEN [scores |-> g.scores, calls |-> <<"AXIS">>]
             ELSE Quiet
        ELSE IF g.scores["ALLIED"] >= 100
        THEN [scores |-> g.scores, calls |-> <<"ALLIED">>]
        ELSE IF g.scores["AXIS"] >= 100
        THEN [scores |-> g.scores, calls |-> <<"AXIS">>]
        ELSE IF left <= 0
        THEN [scores |-> g.scores,
              calls |-> << IF g.scores["ALLIED"] >= g.scores["AXIS"] THEN "ALLIED"
                           ELSE IF g.scores["AXIS"] > g.scores["ALLIED"] THEN "AXIS"
                           ELSE "NONE" >>]
        ELSE Quiet

\* A win check that lets Battle-Royale go on after the human's death.
WinCheckLastStandingOnly(g, left) ==
    LET ps == g.players
        activePlayers == {i \in 1..Len(ps) : ps[i].active}
        k == FindPlayer(ps, "player")
        \* activePlayers[0] is the human
        humanSurvives == \E i \in activePlayers :
                            /\ ps[i].id = "player"
                            /\ \A j \in activePlayers : i <= j
        Quiet == [scores |-> g.scores, calls |-> <<>>]
    IN  IF gameOverTriggered THEN Quiet
        ELSE IF isBR
        THEN IF Cardinality(activePlayers) <= 1
             THEN IF humanSurvives
                  THEN [scores |-> [g.scores EXCEPT !["ALLIED"] = 999],
                        calls |-> <<"ALLIED">>]
                  ELSE [scores |-> [g.scores EXCEPT !["AXIS"] = 999],
                        calls |-> <<"AXIS">>]
             ELSE Quiet
        ELSE IF g.scores["ALLIED"] >= 100
        THEN [scores |-> g.scores, calls |-> <<"ALLIED">>]
        ELSE IF g.scores["AXIS"] >= 100
        THEN [scores |-> g.scores, calls |-> <<"AXIS">>]
        ELSE IF left <= 0
        THEN [scores |-> g.scores,
              calls |-> << IF g.scores["ALLIED"] > g.scores["AXIS"] THEN "ALLIED"
                           ELSE IF g.scores["AXIS"] > g.scores["ALLIED"] THEN "AXIS"
                           ELSE "NONE" >>]
        ELSE Quiet

\* The check the render loop makes on the state updateGame returned
\* (GameCanvas.tsx 121-151): g is that state, left its timeRemaining.  The
\* result holds the scores object after the check (the Battle-Royale branch
\* writes 999 into it) and the winners onGameOver was invoked with.
WinCheck(g, left) ==
    LET ps == g.players
        activePlayers == {i \in 1..Len(ps) : ps[i].active}
        k == FindPlayer(ps, "player")
        \* activePlayers[0] is the human
        humanSurvives == \E i \in activePlayers :
                            /\ ps[i].id = "player"
                            /\ \A j \in activePlayers : i <= j
        Quiet == [scores |-> g.scores, calls |-> <<>>]
    IN  IF gameOverTriggered THEN Quiet
        ELSE IF isBR
        THEN IF Cardinality(activePlayers) <= 1
             THEN IF humanSurvives
                  THEN [scores |-> [g.scores EXCEPT !["ALLIED"] = 999],
                        calls |-> <<"ALLIED">>]
                  ELSE [scores |-> [g.scores EXCEPT !["AXIS"] = 999],
                        calls |-> <<"AXIS">>]
             ELSE IF k # 0 /\ ~ps[k].active
             THEN [scores |-> g.scores, calls |-> <<"AXIS">>]
             ELSE Quiet
        ELSE IF g.scores["ALLIED"] >= 100
        THEN [scores |-> g.scores, calls |-> <<"ALLIED">>]
        ELSE IF g.scores["AXIS"] >= 100
        THEN [scores |-> g.scores, calls |-> <<"AXIS">>]
        ELSE IF left <= 0
        THEN [scores |-> g.scores,
              calls |-> << IF g.scores["ALLIED"] > g.scores["AXIS"] THEN "ALLIED"
                           ELSE IF g.scores["AXIS"] > g.scores["ALLIED"] THEN "AXIS"
                           ELSE "NONE" >>]
        ELSE Quiet

\* One animation frame from the state g its updateGame call returned at t:
\* the win check acts on that state and the frame is requested again.
Frame(g, t) ==
    LET w == WinCheck(g, Max(0, timeRemaining - dt))
    IN  /\ Commit([g EXCEPT !.scores = w.scores], t)
        /\ gameOverTriggered' = (gameOverTriggered \/ w.calls # <<>>)
        /\ gameOverCalls' = gameOverCalls \o w.calls

\* render (GameCanvas.tsx 88-294) with the input and draws of the frame.
render(input, rnd, t) == Frame(Respawn(FrameBody(input, rnd, t), rnd), t)

\* ------------------------------------------------------ createInitialState
\* OPERATORS (constants.ts): health in points and speed in pixels per tick
\* for the operators whose speed PLAYER_SPEED * speedMult is integral.
OperatorStats(operatorId) ==
    IF operatorId = "titan"
    THEN [health |-> Hp(135), speed |-> (PLAYER_SPEED * 8) \div 10]
    ELSE [health |-> Hp(100), speed |-> PLAYER_SPEED]

isSoloModeOf(m) == m = "FFA" \/ m = "GUN_GAME" \/ m = "BATTLE_ROYALE"

\* The human player pushed at lines 85-103, spawned at pos.
HumanPlayer(setup, pos) ==
    LET op == OperatorStats(setup.operatorId)
        startWeapon == IF setup.mode = "GUN_GAME" THEN GUN_GAME_ORDER[1] ELSE setup.weapon
    IN  [id |-> "player", pos |-> pos, radius |-> PLAYER_RADIUS, active |-> TRUE,
         team |-> IF isSoloModeOf(setup.mode) THEN "NONE" ELSE "ALLIED",
         angle |-> Vec(1, 0), health |-> op.health, maxHealth |-> op.health,
         speed |-> op.speed,
         weapon |-> IF setup.mode = "BATTLE_ROYALE" THEN "KNIFE" ELSE startWeapon,
         ammo |-> IF setup.mode = "BATTLE_ROYALE" THEN 0 ELSE WEAPONS[startWeapon].magSize,
         isReloading |-> FALSE, reloadTimer |-> 0, lastShotTime |-> 0,
         kills |-> 0, deaths |-> 0, isBot |-> FALSE, state |-> "", target |-> NullTarget]

\* createBot (106-146): drawn is the weapon drawn from botWeapons.
createBot(id, team, setup, diff, drawn, pos) ==
    LET botHealth == IF diff = "RECRUIT" THEN Hp(80)
                     ELSE IF diff = "ELITE" THEN Hp(120) ELSE Hp(100)
        \* PLAYER_SPEED * 0.7 / 1.0 / 0.9; integral for ELITE only
        botSpeed == IF diff = "RECRUIT" THEN (PLAYER_SPEED * 7) \div 10
                    ELSE IF diff = "ELITE" THEN PLAYER_SPEED
                    ELSE (PLAYER_SPEED * 9) \div 10
        weapon == IF setup.mode = "BATTLE_ROYALE" THEN "KNIFE"
                  ELSE IF setup.mode = "GUN_GAME" THEN GUN_GAME_ORDER[1]
                  ELSE drawn
    IN  [id |-> id, pos |-> pos, radius |-> PLAYER_RADIUS, active |-> TRUE,
         team |-> IF isSoloModeOf(setup.mode) THEN "NONE" ELSE team,
         angle |-> Vec(1, 0), health |-> botHealth, maxHealth |-> botHealth,
         speed |-> botSpeed, weapon |-> weapon,
         ammo |-> IF setup.mode = "BATTLE_ROYALE" THEN 0 ELSE 100,
         isReloading |-> FALSE, reloadTimer |-> 0, lastShotTime |-> 0,
         kills |-> 0, deaths |-> 0, isBot |-> TRUE, state |-> "PATROL",
         target |-> NullTarget]

\* The zone seeded for Battle-Royale (167-177).
InitialZone(w, h) ==
    [present |-> TRUE, x |-> w \div 2, y |-> h \div 2, radius |-> 8 * w,
     targetRadius2 |-> Zr(w), shrinkTimer |-> 30000, state |-> "WAITING",
     damagePerTick |-> 1]

\* Hardpoint setup (160-163): only the first control point starts active.
InitialControlPoints(m, cps) ==
    IF m = "HARDPOINT" THEN [k \in 1..Len(cps) |-> [cps[k] EXCEPT !.active = (k = 1)]]
    ELSE cps

\* generateMap (mapGenerator): the four boundary walls every map ends with.
BoundaryWalls(w, h) ==
    << [x |-> -50, y |-> -50, w |-> w + 100, h |-> 50, type |-> "WALL"],
       [x |-> -50, y |-> h,   w |-> w + 100, h |-> 50, type |-> "WALL"],
       [x |-> -50, y |-> 0,   w |-> 50,      h |-> h,  type |-> "WALL"],
       [x |-> w,   y |-> 0,   w |-> 50,      h |-> h,  type |-> "WALL"] >>

\* generateMap: the standard control points A, B, C.
StandardControlPoints(w, h) ==
    LET P(id, x, y) == [id |-> id, pos |-> Vec(x, y), radius |-> 100, active |-> TRUE,
                        team |-> "NONE", captureProgress |-> 0]
    IN  << P("A", (w * 2) \div 10, (h * 2) \div 10),
           P("B", w \div 2, h \div 2),
           P("C", (w * 8) \div 10, (h * 8) \div 10) >>

LootItem(x, y, weapon) ==
    [pos |-> Vec(x, y), radius |-> 10, weapon |-> weapon, active |-> TRUE]

\* createInitialState has returned; no collision test is being examined.
Created == [done |-> TRUE]
NoProbe == [applied |-> FALSE]

\* A GameState as the variables hold it: static is the part createInitialState
\* fixes for the whole match, dyn the part updateGame rewrites.
StateOf(static, dyn) ==
    /\ mode = static.mode
    /\ difficulty = static.difficulty
    /\ fireMode = static.fireMode
    /\ mapWidth = static.mapWidth
    /\ mapHeight = static.mapHeight
    /\ obstacles = static.obstacles
    /\ dt = static.dt
    /\ players = dyn.players
    /\ bullets = dyn.bullets
    /\ controlPoints = dyn.controlPoints
    /\ loot = dyn.loot
    /\ zone = dyn.zone
    /\ camera = dyn.camera
    /\ scores = dyn.scores
    /\ timeRemaining = dyn.timeRemaining
    /\ killFeed = dyn.killFeed
    /\ hardpointTimer = dyn.hardpointTimer
    /\ now = dyn.now
    /\ ticks = 0
    /\ lastCounts = [k \in 1..Len(dyn.controlPoints) |-> [seen |-> FALSE, allied |-> 0, axis |-> 0]]
    /\ lastNearest = [k \in 1..Len(dyn.players) |-> ""]
    /\ zoneHits = [k \in 1..Len(dyn.players) |-> 0]
    /\ gameOverTriggered = FALSE
    /\ gameOverCalls = <<>>

\* The state of a match whose createInitialState has returned.
MatchState(static, dyn) ==
    /\ StateOf(static, dyn)
    /\ creation = Created
    /\ probe = NoProbe

StaticOf(setup, settings, map, frameDt) ==
    [mode |-> setup.mode, difficulty |-> settings.difficulty,
     fireMode |-> settings.fireMode, mapWidth |-> map.mapWidth,
     mapHeight |-> map.mapHeight, obstacles |-> map.obstacles, dt |-> frameDt]

\* The record createInitialState returns (lines 179-198): ps are the players
\* created (85-157), map the layout generateMap returned, t0 the wall clock.
FreshState(setup, map, ps, t0) ==
    [players |-> ps,
     bullets |-> <<>>,
     controlPoints |-> InitialControlPoints(setup.mode, map.controlPoints),
     loot |-> map.loot,
     zone |-> IF setup.mode = "BATTLE_ROYALE"
              THEN InitialZone(map.mapWidth, map.mapHeight) ELSE NoZone,
     camera |-> Vec(0, 0),
     scores |-> [tm \in Teams |-> 0],
     timeRemaining |-> 1080000,
     killFeed |-> <<>>,
     hardpointTimer |-> HARDPOINT_PERIOD,
     now |-> t0]

InitialState(setup, settings, map, ps, frameDt, t0) ==
    MatchState(StaticOf(setup, settings, map, frameDt), FreshState(setup, map, ps, t0))


\* ------------------------------------------------------------ environment
\* The arena the scenarios play in: generateMap's layout at a small scale.
Arena == [w |-> 300, h |-> 400]
\* Date.now() at match start.
Epoch == 100 * 100

Draw(fire, refresh, patrol, go, samples) ==
    [fire |-> fire, refresh |-> refresh, patrol |-> patrol, go |-> go, samples |-> samples]

NoSamples == [k \in 1..6 |-> Vec(Arena.w \div 2, Arena.h \div 2)]

Key(k) ==
    [NoInput EXCEPT !.a = (k = "a"), !.d = (k = "d"), !.w = (k = "w"),
                    !.s = (k = "s"), !.r = (k = "r")]
\* The cursor at the screen centre plus (ox, oy): the human aims along (ox, oy).
Aim(input, ox, oy, down) ==
    [input EXCEPT !.mouseX = View.w \div 2 + ox, !.mouseY = View.h \div 2 + oy,
                  !.mouseDown = down]

\* Points getSpawnPoint can return for both ALLIED and AXIS on the arena's
\* middle line.
PatrolPoints == {Vec(100, Arena.h \div 2)}

\* ------------------------------------------------- Battle-Royale behaviours
MaxTicksBR == 280

SetupBR == [mode |-> "BATTLE_ROYALE", weapon |-> "RIFLE", operatorId |-> "ranger"]
SettingsBR == [difficulty |-> "ELITE", fireMode |-> "MANUAL"]
MapBR ==
    [mapWidth |-> Arena.w, mapHeight |-> Arena.h,
     obstacles |-> BoundaryWalls(Arena.w, Arena.h),
     controlPoints |-> StandardControlPoints(Arena.w, Arena.h),
     loot |-> << LootItem(180, Arena.h \div 2, "PISTOL") >>]

DtsBR == {1000, 4000}

InitBR ==
    \E frameDt \in DtsBR, hx \in {100, 150} :
       InitialState(SetupBR, SettingsBR, MapBR,
          << HumanPlayer(SetupBR, Vec(hx, Arena.h \div 2)),
             createBot("bot-axis-0", "AXIS", SetupBR, "ELITE", "RIFLE",
                       Vec(195, Arena.h \div 2)) >>,
          frameDt, Epoch)

\* The human steers and the bot's fire draw may succeed during the first
\* MoveWindowBR calls; afterwards the human stands still and the draw fails.
MoveWindowBR == 6
InputsBR == IF ticks < MoveWindowBR THEN {NoInput, Key("a"), Key("d")} ELSE {NoInput}
FireDrawsBR == IF ticks < MoveWindowBR THEN BOOLEAN ELSE {FALSE}
\* The respawn draw of a player that is down (never looked at in this mode)
\* may likewise succeed during those calls.
RespawnDrawsBR == IF ticks < MoveWindowBR THEN BOOLEAN ELSE {FALSE}

TickBR ==
    /\ mode = "BATTLE_ROYALE"
    /\ ticks < MaxTicksBR
    /\ \E input \in InputsBR, fire \in FireDrawsBR, patrol \in PatrolPoints :
          \E g \in {FrameBody(input,
                      [i \in 1..Len(players) |-> Draw(fire, FALSE, patrol, FALSE, NoSamples)],
                      now + dt)} :
             LET down == {i \in 1..Len(players) : ~g.players[i].active}
             IN  \E go \in IF down = {} THEN {FALSE} ELSE RespawnDrawsBR :
                    Frame(Respawn(g, [i \in 1..Len(players) |->
                                        Draw(FALSE, FALSE, patrol, go, NoSamples)]),
                          now + dt)

SpecBR == InitBR /\ [][TickBR]_vars

\* C7: in Battle-Royale the zone radius never increases from one call to the
\* next: it is unchanged by a call that starts WAITING and strictly smaller
\* after a call that starts SHRINKING.
C7_RadiusNonIncreasing ==
    [][mode = "BATTLE_ROYALE" =>
          /\ zone'.radius <= zone.radius
          /\ zone.state = "WAITING" => zone'.radius = zone.radius
          /\ zone.state = "SHRINKING" => zone'.radius < zone.radius]_vars

\* The zone is shrinking in its second segment: one full wait/shrink cycle
\* is behind it.
C7_Witness ==
    /\ mode = "BATTLE_ROYALE"
    /\ zone.state = "SHRINKING"
    /\ 2 * zone.radius <= Zr(mapWidth)

\* C8: after a call that starts SHRINKING the radius is not below the
\* target radius that was in force when the call started.
C8_NoUndershoot ==
    [][mode = "BATTLE_ROYALE" /\ zone.state = "SHRINKING" =>
          2 * zone'.radius >= zone.targetRadius2]_vars

\* C9: a player outside the zone loses exactly damagePerTick in that call
\* whatever dt is, turns inactive in the first call that leaves its health
\* at or below 0 with deaths incremented once, has taken at most
\* maxHealth / damagePerTick hits by then (200 for 100 points of health at
\* 0.5 per call), and is left unchanged by every later call.
C9_ZoneDeath ==
    /\ [](mode = "BATTLE_ROYALE" =>
            \A i \in 1..Len(players) :
               /\ players[i].health <= players[i].maxHealth - zoneHits[i] * zone.damagePerTick
               /\ players[i].active <=> players[i].health > 0
               /\ players[i].maxHealth = Hp(100) => zoneHits[i] < 201)
    /\ [][mode = "BATTLE_ROYALE" =>
            \A i \in 1..Len(players) :
               /\ players[i].active /\ OutsideZone(players[i].pos, zone') /\ bullets' = <<>> =>
                    /\ players'[i].health = players[i].health - zone.damagePerTick
                    /\ zoneHits'[i] = zoneHits[i] + 1
                    /\ players'[i].active <=> players'[i].health > 0
                    /\ players'[i].deaths =
                          players[i].deaths + (IF players'[i].health > 0 THEN 0 ELSE 1)
               /\ ~players[i].active =>
                    /\ players'[i].health = players[i].health
                    /\ players'[i].deaths = players[i].deaths
                    /\ ~players'[i].active
                    /\ zoneHits'[i] = zoneHits[i]]_vars

\* The human, never hit by a bullet, has died to the zone on its 200th hit.
C9_Witness ==
    /\ mode = "BATTLE_ROYALE"
    /\ \E i \in 1..Len(players) :
          /\ players[i].maxHealth = Hp(100)
          /\ zoneHits[i] = 200
          /\ ~players[i].active
          /\ players[i].health = 0
          /\ players[i].deaths = 1
          /\ killFeed # <<>> /\ killFeed[1].killer = "ZONE"

\* ------------------------------------------- Domination / Hardpoint behaviours
MaxTicksObj == 4

SettingsObj == [difficulty |-> "ELITE", fireMode |-> "MANUAL"]
SetupObj(m) == [mode |-> m, weapon |-> "RIFLE", operatorId |-> "ranger"]
MapObj ==
    [mapWidth |-> Arena.w, mapHeight |-> Arena.h,
     obstacles |-> BoundaryWalls(Arena.w, Arena.h),
     controlPoints |-> StandardControlPoints(Arena.w, Arena.h),
     loot |-> <<>>]

\* A player as a lethal hit leaves it: inactive, one more death, the health it
\* had left (a quarter of its maximum) minus the bullet's damage.
Fallen(p, damage) ==
    [p EXCEPT !.active = FALSE, !.deaths = 1, !.health = p.maxHealth \div 4 - damage]

\* The camera once a call has centred it on the human.
Centred(pos) == Vec(pos.x - View.w \div 2, pos.y - View.h \div 2)

\* Capture progress values a running match leaves on point B.
ProgressObj == {Cp(0), Cp(99) - 1, Cp(99)}
\* Rotation timer values: fresh, and one call before the rotation.
TimersObj == {HARDPOINT_PERIOD, 2}

\* A match in progress on the arena: the human (ALLIED) and one AXIS bot
\* stand inside point B, either of them possibly fallen; B carries some
\* capture history; in Hardpoint the hill has already rotated from A to B.
InitObj ==
    \E m \in {"DOMINATION", "HARDPOINT"}, prog \in ProgressObj, owner \in {"NONE", "AXIS"},
       humanUp \in BOOLEAN, botUp \in BOOLEAN, timer \in TimersObj :
       LET setup == SetupObj(m)
           h0 == HumanPlayer(setup, Vec(100, Arena.h \div 2))
           b0 == [createBot("bot-axis-0", "AXIS", setup, "ELITE", "RIFLE",
                            Vec(195, Arena.h \div 2))
                     EXCEPT !.state = "CAPTURE"]
           ps == << IF humanUp THEN h0 ELSE Fallen(h0, WEAPONS["RIFLE"].damage),
                    IF botUp THEN b0 ELSE Fallen(b0, WEAPONS["RIFLE"].damage) >>
           cps == [k \in 1..3 |->
                     [MapObj.controlPoints[k] EXCEPT
                         !.active = (m = "DOMINATION" \/ k = 2),
                         !.team = IF k = 2 THEN owner ELSE "NONE",
                         !.captureProgress = IF k = 2 THEN prog ELSE 0]]
       IN  /\ m = "DOMINATION" => timer = HARDPOINT_PERIOD
           /\ MatchState(StaticOf(setup, SettingsObj, MapObj, 16),
                 [FreshState(setup, MapObj, ps, Epoch) EXCEPT
                     !.controlPoints = cps,
                     !.hardpointTimer = timer,
                     !.camera = Centred(h0.pos),
                     !.timeRemaining = 1080000 - 60000])

\* The wall clock advances by one display frame per call.
FrameGap == 20
\* Respawn samples: every draw of getSpawnPoint returns v.
Samples(v) == [k \in 1..6 |-> v]
\* Spawn points both teams can draw: inside B, and inside A only.
SpawnsObj == {Vec(100, Arena.h \div 2), Vec(100, 110)}

InputsObj == {NoInput, Key("d"), Aim(NoInput, 50, 0, TRUE)}

TickObj ==
    /\ mode \in {"DOMINATION", "HARDPOINT"}
    /\ ticks < MaxTicksObj
    /\ \E input \in InputsObj, fire \in BOOLEAN :
          \E g \in {FrameBody(input,
                      [i \in 1..Len(players) |-> Draw(fire, FALSE, Vec(0, 0), FALSE, NoSamples)],
                      now + FrameGap)} :
             LET down == {i \in 1..Len(players) : ~g.players[i].active}
             IN  \E back \in SUBSET down, v \in SpawnsObj :
                    /\ back = {} => v = Vec(100, Arena.h \div 2)
                    /\ Frame(Respawn(g, [i \in 1..Len(players) |->
                                 Draw(FALSE, FALSE, Vec(0, 0), i \in back, Samples(v))]),
                             now + FrameGap)

SpecObj == InitObj /\ [][TickObj]_vars

\* ------------------------------ Team-Deathmatch / FFA / Gun-Game behaviours
MaxTicksCombat == 4

SettingsCombat == [difficulty |-> "ELITE", fireMode |-> "MANUAL"]
SetupCombat(m) == [mode |-> m, weapon |-> "RIFLE", operatorId |-> "ranger"]
MapCombat ==
    [mapWidth |-> Arena.w, mapHeight |-> Arena.h,
     obstacles |-> BoundaryWalls(Arena.w, Arena.h),
     controlPoints |-> StandardControlPoints(Arena.w, Arena.h),
     loot |-> <<>>]

\* A Gun-Game player who has progressed to weapon w: one kill per step of
\* the progression, and the full magazine handed over with the weapon.
Progressed(p, w) ==
    [p EXCEPT !.weapon = w, !.kills = GunGameIndexOf(w), !.ammo = WEAPONS[w].magSize]

\* A player with n kills and n deaths behind it.
Veteran(p, n) == [p EXCEPT !.kills = n, !.deaths = n]

\* The scores after the human and the bot made n kills each (handleKill
\* 736-743).
ScoresAfter(m, n) ==
    IF m = "TDM" THEN [NONE |-> 0, ALLIED |-> 10 * n, AXIS |-> 10 * n]
    ELSE IF m = "FFA" THEN [NONE |-> 20 * n, ALLIED |-> 10 * n, AXIS |-> 10 * n]
    ELSE [tm \in Teams |-> 0]

\* The kills each side has made in a late match, and the time left in it.
LateKills == 9
LateTime == 48

\* A match in progress on the arena: the human and one enemy bot face each
\* other 40 pixels apart, each either unhurt or down to its last points of
\* health; in Gun-Game both are near the end of the progression.  A late
\* match has LateTime ms left, and outside Gun-Game each side is one kill
\* short of the score limit.
CombatStart(late) ==
    \E m \in {"TDM", "FFA", "GUN_GAME"}, humanHurt \in BOOLEAN, botHurt \in BOOLEAN,
       botWeapon \in {"SNIPER", "KNIFE"} :
       LET setup == SetupCombat(m)
           h0 == HumanPlayer(setup, Vec(100, Arena.h \div 2))
           b0 == createBot("bot-axis-0", "AXIS", setup, "ELITE", "RIFLE",
                           Vec(140, Arena.h \div 2))
           n == IF late THEN LateKills ELSE 0
           h1 == IF m = "GUN_GAME" THEN Progressed(h0, "KNIFE") ELSE Veteran(h0, n)
           b1 == IF m = "GUN_GAME" THEN Progressed(b0, botWeapon) ELSE Veteran(b0, n)
           ps == << IF humanHurt THEN [h1 EXCEPT !.health = Hp(25)] ELSE h1,
                    IF botHurt THEN [b1 EXCEPT !.health = Hp(20)] ELSE b1 >>
       IN  /\ m # "GUN_GAME" => botWeapon = "SNIPER"
           /\ MatchState(StaticOf(setup, SettingsCombat, MapCombat, 16),
                 [FreshState(setup, MapCombat, ps, Epoch) EXCEPT
                     !.camera = Centred(h0.pos),
                     !.scores = ScoresAfter(m, n),
                     !.timeRemaining = IF late THEN LateTime ELSE 1080000 - 60000])

InitCombat == CombatStart(FALSE)
InitLate == CombatStart(TRUE)

SpawnsCombat == {Vec(100, Arena.h \div 2), Vec(150, 110)}
InputsCombat ==
    {NoInput, Key("d"), Key("r"), Aim(NoInput, 50, 0, TRUE), Aim(NoInput, -50, 0, TRUE)}

TickCombat ==
    /\ mode \in {"TDM", "FFA", "GUN_GAME"}
    /\ ticks < MaxTicksCombat
    /\ \E input \in InputsCombat, fire \in BOOLEAN :
          \E g \in {FrameBody(input,
                      [i \in 1..Len(players) |-> Draw(fire, FALSE, Vec(100, Arena.h \div 2), FALSE, NoSamples)],
                      now + FrameGap)} :
             LET down == {i \in 1..Len(players) : ~g.players[i].active}
             IN  \E back \in SUBSET down, v \in SpawnsCombat :
                    /\ back = {} => v = Vec(100, Arena.h \div 2)
                    /\ Frame(Respawn(g, [i \in 1..Len(players) |->
                                 Draw(FALSE, FALSE, Vec(0, 0), i \in back, Samples(v))]),
                             now + FrameGap)

SpecCombat == InitCombat /\ [][TickCombat]_vars

\* Matches in progress and late matches together.
InitScore == InitCombat \/ InitLate
SpecScore == InitScore /\ [][TickCombat]_vars

isObjective == mode = "DOMINATION" \/ mode = "HARDPOINT"

\* C4: in Domination and Hardpoint every control point's captureProgress
\* lies in [0, 100] after every call.
C4_ProgressInRange ==
    isObjective =>
       \A c \in 1..Len(controlPoints) :
          controlPoints[c].captureProgress >= Cp(0) /\ controlPoints[c].captureProgress <= Cp(100)

\* A lone team has pushed a point's progress to 99.5, the last value below
\* the capture threshold.
C4_Witness ==
    /\ isObjective
    /\ \E c \in 1..Len(controlPoints) :
          /\ controlPoints[c].captureProgress = Cp(100) - 1
          /\ lastCounts[c].seen
          /\ (lastCounts[c].allied > 0) # (lastCounts[c].axis > 0)

\* The call that starts in this state rotates the hardpoint (lines 428-436).
RotationDue == mode = "HARDPOINT" /\ hardpointTimer - 1 <= 0

\* Point c changes owner in this step because the single team present on it
\* completed the capture: progress reached 100 and was reset.
CapturedBy(c, tm) ==
    /\ controlPoints'[c].team = tm
    /\ controlPoints[c].captureProgress + Cp(1) >= Cp(100)
    /\ controlPoints'[c].captureProgress = 0
    /\ lastCounts'[c].seen
    /\ lastCounts'[c].allied > 0 <=> tm = "ALLIED"
    /\ lastCounts'[c].axis > 0 <=> tm = "AXIS"

\* C5 as stated: a control point's owner changes only in a call in which
\* its progress reaches 100, to the single team present on it.
C5_OwnerChangesOnlyAtCapture ==
    [][isObjective =>
          \A c \in 1..Len(controlPoints) :
             controlPoints'[c].team # controlPoints[c].team =>
                \E tm \in {"ALLIED", "AXIS"} : CapturedBy(c, tm)]_vars

\* C5 amended: a control point's owner changes only in a call in which its
\* progress reaches 100, to the single team present on it, or in a call
\* that rotates the hardpoint, which leaves every point without owner.
C5_OwnerChangesAtCaptureOrRotation ==
    [][isObjective =>
          /\ \A c \in 1..Len(controlPoints) :
                controlPoints'[c].team # controlPoints[c].team =>
                   \/ ~RotationDue /\ \E tm \in {"ALLIED", "AXIS"} : CapturedBy(c, tm)
                   \/ RotationDue /\ controlPoints'[c].team = "NONE"
          /\ RotationDue =>
                \A c \in 1..Len(controlPoints) :
                   controlPoints'[c].team = "NONE" /\ controlPoints'[c].captureProgress <= Cp(1)]_vars

\* The human, alone on the active hardpoint, has just captured it.
C5_Witness ==
    /\ mode = "HARDPOINT"
    /\ \E c \in 1..Len(controlPoints) :
          /\ controlPoints[c].active
          /\ controlPoints[c].team = "ALLIED"
          /\ controlPoints[c].captureProgress = 0
          /\ lastCounts[c].allied > 0 /\ lastCounts[c].axis = 0

\* C6: in Domination a call that finds at least one active ALLIED and one
\* active AXIS player inside a control point leaves that point's
\* captureProgress and owner unchanged.
C6_ContestedUnchanged ==
    [][mode = "DOMINATION" =>
          \A c \in 1..Len(controlPoints) :
             lastCounts'[c].allied > 0 /\ lastCounts'[c].axis > 0 =>
                /\ controlPoints'[c].captureProgress = controlPoints[c].captureProgress
                /\ controlPoints'[c].team = controlPoints[c].team]_vars

\* Both teams have stood on a point with progress 99 since the match state
\* was taken: it is still 99 after the last call.
C6_Witness ==
    /\ mode = "DOMINATION"
    /\ ticks >= 3
    /\ \E c \in 1..Len(controlPoints) :
          /\ lastCounts[c].allied > 0 /\ lastCounts[c].axis > 0
          /\ controlPoints[c].captureProgress = Cp(99)
          /\ controlPoints[c].team = "NONE"

\* ----------------------------------------------------------- every mode
Init == InitBR \/ InitObj \/ InitCombat
Next == TickBR \/ TickObj \/ TickCombat
Spec == Init /\ [][Next]_vars

\* C1: after every call every player's health is within [0, maxHealth].
C1_HealthInRange ==
    \A i \in 1..Len(players) :
       players[i].health >= 0 /\ players[i].health <= players[i].maxHealth

\* Bullets of bullets' that were fired during this step by the player id.
FiredBy(id) ==
    {n \in 1..Len(bullets') :
        bullets'[n].ownerId = id /\ bullets'[n].distanceTraveled = BulletStep}

\* The players the control-point step of this call can find on point c for
\* team tm: active when the call started, not killed during it, and inside.
Present(c, tm) ==
    {k \in 1..Len(players) :
        /\ players[k].active
        /\ players'[k].deaths = players[k].deaths
        /\ players[k].team = tm
        /\ DistLess(players'[k].pos, controlPoints[c].pos, controlPoints[c].radius)}

\* C2: a call that starts with player i inactive does not move it, lets it
\* neither fire nor reload, applies no bullet or zone damage to it, leaves
\* its deaths alone, makes it no bot's nearest enemy and counts it on no
\* control point; the only change is the respawn step's, which may set it
\* active again at full health.
C2_InactiveUntouched ==
    [][/\ \A i \in 1..Len(players) :
             ~players[i].active =>
                /\ players'[i].deaths = players[i].deaths
                /\ players'[i].lastShotTime = players[i].lastShotTime
                /\ FiredBy(players[i].id) = {}
                /\ players'[i].isReloading = players[i].isReloading
                /\ players'[i].reloadTimer = players[i].reloadTimer
                /\ zoneHits'[i] = zoneHits[i]
                /\ \A k \in 1..Len(players) : lastNearest'[k] # players[i].id
                /\ IF players'[i].active
                   THEN mode # "BATTLE_ROYALE" /\ players'[i].health = players[i].maxHealth
                   ELSE /\ players'[i].pos = players[i].pos
                        /\ players'[i].health = players[i].health
       /\ \A c \in 1..Len(controlPoints) :
             lastCounts'[c].seen =>
                /\ lastCounts'[c].allied = Cardinality(Present(c, "ALLIED"))
                /\ lastCounts'[c].axis = Cardinality(Present(c, "AXIS"))]_vars

\* A fallen player lies inside a control point that has just been counted
\* with nobody on it, while a bot that scanned for enemies found none.
C2_Witness ==
    \E i \in 1..Len(players), c \in 1..Len(controlPoints) :
       /\ ~players[i].active
       /\ DistLess(players[i].pos, controlPoints[c].pos, controlPoints[c].radius)
       /\ lastCounts[c].seen /\ lastCounts[c].allied = 0 /\ lastCounts[c].axis = 0
       /\ \E k \in 1..Len(players) : lastNearest[k] = "none"

\* C3: while a bullet is in state.bullets its distanceTraveled grows by 25
\* per call; it is deactivated by range in the call in which the distance
\* first exceeds maxDistance, not earlier (a bullet deactivated within range
\* hit a wall or a player) and not later; a bullet inactive when a call
\* starts is dropped, and the bullets behind the surviving ones are the ones
\* fired in this call.
C3_BulletRange ==
    /\ [](\A n \in 1..Len(bullets) :
             /\ bullets[n].active => bullets[n].distanceTraveled <= bullets[n].maxDistance
             /\ bullets[n].distanceTraveled > bullets[n].maxDistance =>
                   bullets[n].distanceTraveled - BulletStep <= bullets[n].maxDistance)
    /\ [][LET kept == ActiveBullets(bullets)
          IN  /\ Len(bullets') >= Len(kept)
              /\ \A n \in 1..Len(bullets') :
                    /\ n <= Len(kept) =>
                          /\ bullets'[n].distanceTraveled = kept[n].distanceTraveled + BulletStep
                          /\ bullets'[n].ownerId = kept[n].ownerId
                          /\ bullets'[n].maxDistance = kept[n].maxDistance
                    /\ n > Len(kept) => bullets'[n].distanceTraveled = BulletStep
                    /\ bullets'[n].distanceTraveled > bullets'[n].maxDistance =>
                          ~bullets'[n].active
                    /\ ~bullets'[n].active
                         /\ bullets'[n].distanceTraveled <= bullets'[n].maxDistance =>
                          \/ HitsWall(bullets'[n])
                          \/ \E j \in 1..Len(players) :
                                \/ players'[j].health < players[j].health
                                \/ players'[j].deaths > players[j].deaths]_vars

\* A melee bullet that hit nothing has just run out of range, 25 past it.
C3_Witness ==
    \E n \in 1..Len(bullets) :
       /\ ~bullets[n].active
       /\ bullets[n].maxDistance = WEAPONS["KNIFE"].range
       /\ bullets[n].distanceTraveled = bullets[n].maxDistance + BulletStep

\* The score a solo-mode player's kills count for: ALLIED for the human,
\* AXIS for a bot (lines 731-732 and 739-741).
SideOf(p) == IF p.team # "NONE" THEN p.team ELSE IF p.id = "player" THEN "ALLIED" ELSE "AXIS"

\* C10: in Gun-Game a kill made by a player holding the last weapon of
\* GUN_GAME_ORDER sets the killer's side's score to 100 in the same call,
\* adds 10 to no score, and leaves the killer's weapon unchanged.
C10_FinalKill ==
    [][mode = "GUN_GAME" =>
          \A k \in 1..Len(players) :
             /\ players[k].weapon = GUN_GAME_ORDER[Len(GUN_GAME_ORDER)]
             /\ players'[k].kills > players[k].kills
             => /\ scores'[SideOf(players[k])] = 100
                /\ players'[k].weapon = players[k].weapon
                /\ \A tm \in Teams : scores'[tm] = scores[tm] \/ scores'[tm] = 100]_vars

\* A player holding the last weapon has made a kill beyond the ones that
\* took it through the progression, and its side's score is 100.
C10_Witness ==
    /\ mode = "GUN_GAME"
    /\ \E k \in 1..Len(players) :
          /\ players[k].weapon = GUN_GAME_ORDER[Len(GUN_GAME_ORDER)]
          /\ players[k].kills = Len(GUN_GAME_ORDER)
          /\ scores[SideOf(players[k])] = 100

\* ------------------------------------------------------------ match outcome
\* Player k, holding the last weapon of the progression, makes a kill in
\* this frame.
FinalKillBy(k) ==
    /\ players[k].weapon = GUN_GAME_ORDER[Len(GUN_GAME_ORDER)]
    /\ players'[k].kills > players[k].kills

\* onGameOver is invoked in this frame.
Declared == gameOverCalls' # gameOverCalls
Winner == gameOverCalls'[Len(gameOverCalls')]

\* C11: in Gun-Game, a frame in which the only players to make a kill with
\* the last weapon are the human reports winner ALLIED through onGameOver,
\* and a frame in which they are bots reports winner AXIS.
C11_GunGameWinner ==
    [][mode = "GUN_GAME" /\ Declared /\ (\E k \in 1..Len(players) : FinalKillBy(k)) =>
          /\ (\A k \in 1..Len(players) : FinalKillBy(k) => players[k].id = "player")
             => Winner = "ALLIED"
          /\ (\A k \in 1..Len(players) : FinalKillBy(k) => players[k].isBot)
             => Winner = "AXIS"]_vars

\* ------------------------------------------------------- weapon fire alone
\* tryFireWeapon applied on its own to a match in progress: the human holds
\* any weapon with an empty, a last-round or a full magazine and has either
\* never fired or fired ShotAgo ms ago.
MaxShots == 3
ShotAgo == 50
FireGaps == {FrameGap, 2000}

InitFire ==
    \E w \in WeaponTypes, left \in {0, 1, 2}, fresh \in BOOLEAN :
       LET setup == [SetupCombat("TDM") EXCEPT !.weapon = w]
           h0 == HumanPlayer(setup, Vec(100, Arena.h \div 2))
           h1 == [h0 EXCEPT !.ammo = IF left = 2 THEN WEAPONS[w].magSize ELSE left,
                            !.lastShotTime = IF fresh THEN 0 ELSE Epoch - ShotAgo]
           b0 == createBot("bot-axis-0", "AXIS", setup, "ELITE", "SHOTGUN",
                           Vec(140, Arena.h \div 2))
       IN  MatchState(StaticOf(setup, SettingsCombat, MapCombat, 16),
              [FreshState(setup, MapCombat, <<h1, b0>>, Epoch) EXCEPT
                  !.camera = Centred(h0.pos),
                  !.timeRemaining = 1080000 - 60000])

\* One call tryFireWeapon(players[i], state, t).
FireStep ==
    /\ ticks < MaxShots
    /\ \E i \in 1..Len(players), gap \in FireGaps :
          LET g == tryFireWeapon(Game, i, now + gap)
          IN  /\ players' = g.players
              /\ bullets' = g.bullets
              /\ now' = now + gap
              /\ ticks' = ticks + 1
              /\ UNCHANGED <<mode, difficulty, fireMode, mapWidth, mapHeight, obstacles,
                             controlPoints, loot, zone, camera, scores, timeRemaining,
                             killFeed, hardpointTimer, dt, lastCounts, lastNearest,
                             zoneHits, gameOverTriggered, gameOverCalls, creation, probe>>

SpecFire == InitFire /\ [][FireStep]_vars

isShotgun(w) == w = "SHOTGUN" \/ w = "AUTO_SHOTGUN"

\* C12: a call of tryFireWeapon that fires (it stamps lastShotTime) takes
\* exactly 1 from the ammo of a weapon other than KNIFE and none from KNIFE,
\* and appends exactly 5 bullets for SHOTGUN and AUTO_SHOTGUN and exactly 1
\* for every other weapon, leaving the earlier bullets as they were; every
\* appended bullet has the shooter's id and team, the weapon's damage and
\* range, and distanceTraveled 0.
C12_FireEffect ==
    [][\A i \in 1..Len(players) :
          players'[i].lastShotTime # players[i].lastShotTime =>
             LET p == players[i]
                 n == Len(bullets)
             IN  /\ players'[i].ammo = IF p.weapon = "KNIFE" THEN p.ammo ELSE p.ammo - 1
                 /\ Len(bullets') = n + (IF isShotgun(p.weapon) THEN 5 ELSE 1)
                 /\ SubSeq(bullets', 1, n) = bullets
                 /\ \A k \in (n + 1)..Len(bullets') :
                       /\ bullets'[k].ownerId = p.id
                       /\ bullets'[k].team = p.team
                       /\ bullets'[k].damage = WEAPONS[p.weapon].damage
                       /\ bullets'[k].maxDistance = WEAPONS[p.weapon].range
                       /\ bullets'[k].distanceTraveled = 0]_vars

\* The human fired an automatic shotgun with one round left: the magazine
\* is empty and the shot's five bullets are the only ones in flight.
C12_Witness ==
    /\ \E i \in 1..Len(players) :
          /\ players[i].id = "player"
          /\ players[i].weapon = "AUTO_SHOTGUN"
          /\ players[i].ammo = 0
          /\ players[i].lastShotTime = now
    /\ Len(bullets) = 5
    /\ \A k \in 1..5 : bullets[k].ownerId = "player" /\ bullets[k].distanceTraveled = 0

\* ------------------------------------------- createInitialState, step by step
\* getSafeSpawn's attempt budget (line 57).
SPAWN_ATTEMPTS == 20

\* The players createInitialState creates, in order (85, 148-157): the
\* human, then targetAllyCount allies, then targetEnemyCount enemies.  An
\* enemy count taken from the team slider in every mode.
RosterTeamSliders(m, settings) ==
    << [id |-> "player", team |-> "ALLIED"] >>
    \o [i \in 1..(IF isSoloModeOf(m) THEN 0 ELSE settings.allyCount) |->
           [id |-> "bot-ally-" \o ToString(i - 1), team |-> "ALLIED"]]
    \o [i \in 1..settings.enemyCount |->
           [id |-> "bot-axis-" \o ToString(i - 1), team |-> "AXIS"]]

Roster(m, settings) ==
    LET targetAllyCount == IF isSoloModeOf(m) THEN 0 ELSE settings.allyCount
        targetEnemyCount == IF isSoloModeOf(m) THEN settings.botCount
                            ELSE settings.enemyCount
    IN  << [id |-> "player", team |-> "ALLIED"] >>
        \o [i \in 1..targetAllyCount |->
               [id |-> "bot-ally-" \o ToString(i - 1), team |-> "ALLIED"]]
        \o [i \in 1..targetEnemyCount |->
               [id |-> "bot-axis-" \o ToString(i - 1), team |-> "AXIS"]]

\* The team getSpawnPoint is asked for: isFFA ? Team.NONE : team.
SpawnTeam(m, team) == IF isSoloModeOf(m) THEN "NONE" ELSE team

\* A spawn test that looks at the obstacles only.
SpawnCollidesWallsOnly(ps, pos) == ~ClearOfObstacles(pos, PLAYER_RADIUS + 5)

\* The collided flag of getSafeSpawn (58-74) for candidate pos, ps being the
\* players created so far.
SpawnCollides(ps, pos) ==
    \/ ~ClearOfObstacles(pos, PLAYER_RADIUS + 5)
    \/ \E k \in 1..Len(ps) : DistLess(pos, ps[k].pos, 3 * PLAYER_RADIUS)

\* The layout the players are placed on: the arena with one wall block.
MapCreate ==
    [mapWidth |-> Arena.w, mapHeight |-> Arena.h,
     obstacles |-> << [x |-> 170, y |-> 190, w |-> 20, h |-> 20, type |-> "WALL"] >>
                   \o BoundaryWalls(Arena.w, Arena.h),
     controlPoints |-> StandardControlPoints(Arena.w, Arena.h),
     loot |-> <<>>]

\* Points the spawn sampler returns here: two of them closer together than
\* the minimum separation, one next to the wall block, one in the open.
SpawnPoints == {Vec(100, 200), Vec(130, 200), Vec(160, 200), Vec(150, 110)}
SpawnSamples(team) ==
    {v \in SpawnPoints : IsSpawnPoint(team, v, mapWidth, mapHeight)}

\* settings.allyCount / enemyCount / botCount of the matches created.
SettingsCreate ==
    { [difficulty |-> "ELITE", fireMode |-> "MANUAL",
       allyCount |-> 1, enemyCount |-> 2, botCount |-> 1],
      [difficulty |-> "ELITE", fireMode |-> "MANUAL",
       allyCount |-> 0, enemyCount |-> 1, botCount |-> 3] }
BotWeaponDraws == {"RIFLE", "SMG"}

\* createInitialState entered: the map is generated, no player is created
\* yet, and getSafeSpawn for the human has drawn its first candidate.
InitCreate ==
    \E m \in Modes, settings \in SettingsCreate, first \in SpawnPoints :
       LET setup == SetupCombat(m)
       IN  /\ StateOf(StaticOf(setup, settings, MapCreate, 16),
                      FreshState(setup, MapCreate, <<>>, Epoch))
           /\ first \in SpawnSamples(SpawnTeam(m, "ALLIED"))
           /\ creation = [done |-> FALSE, settings |-> settings,
                          weapon |-> setup.weapon, operatorId |-> setup.operatorId,
                          pos |-> first, attempts |-> 0, fallbacks |-> {}]
           /\ probe = NoProbe

\* One turn of getSafeSpawn's loop for the player being created (57-80), up
\* to the next draw of a candidate: a rejected candidate is replaced by a new
\* sample; an accepted one, or the one left when the attempts are used up,
\* becomes the position of the player pushed (85-103 or 125-145), and
\* getSafeSpawn starts for the next player of the roster.
SpawnStep ==
    /\ ~creation.done
    /\ LET setup == [mode |-> mode, weapon |-> creation.weapon,
                     operatorId |-> creation.operatorId]
           roster == Roster(mode, creation.settings)
           n == Len(players) + 1
           who == roster[n]
           rejected == creation.attempts < SPAWN_ATTEMPTS /\ SpawnCollides(players, creation.pos)
       IN  IF rejected
           THEN /\ \E v \in SpawnSamples(SpawnTeam(mode, who.team)) :
                      creation' = [creation EXCEPT !.pos = v, !.attempts = @ + 1]
                /\ UNCHANGED <<players, lastNearest, zoneHits>>
           ELSE /\ \E drawn \in BotWeaponDraws :
                      /\ who.id = "player" => drawn = "RIFLE"
                      /\ players' = Append(players,
                            IF who.id = "player" THEN HumanPlayer(setup, creation.pos)
                            ELSE createBot(who.id, who.team, setup, difficulty, drawn,
                                           creation.pos))
                /\ lastNearest' = Append(lastNearest, "")
                /\ zoneHits' = Append(zoneHits, 0)
                /\ LET fb == IF creation.attempts >= SPAWN_ATTEMPTS
                             THEN creation.fallbacks \cup {n} ELSE creation.fallbacks
                   IN  IF n < Len(roster)
                       THEN \E v \in SpawnSamples(SpawnTeam(mode, roster[n + 1].team)) :
                               creation' = [creation EXCEPT !.pos = v, !.attempts = 0,
                                                            !.fallbacks = fb]
                       ELSE creation' = [creation EXCEPT !.done = TRUE, !.fallbacks = fb]
    /\ UNCHANGED <<mode, difficulty, fireMode, mapWidth, mapHeight, obstacles, bullets,
                   controlPoints, loot, zone, camera, scores, timeRemaining, killFeed,
                   hardpointTimer, now, dt, ticks, lastCounts, gameOverTriggered,
                   gameOverCalls, probe>>

SpecCreate == InitCreate /\ [][SpawnStep]_vars

\* C13: the state createInitialState returns has exactly 1 + botCount
\* players in FFA, Gun-Game and Battle-Royale, all active and all on team
\* NONE, and exactly 1 + allyCount + enemyCount players in the team modes,
\* the human and allyCount bots on ALLIED and enemyCount bots on AXIS; no two
\* players have the same id.
C13_Roster ==
    creation.done /\ ticks = 0 /\ "settings" \in DOMAIN creation =>
       LET st == creation.settings
           N == 1..Len(players)
           On(tm) == {i \in N : players[i].team = tm}
       IN  /\ \A i \in N : players[i].active
           /\ \A i, j \in N : players[i].id = players[j].id => i = j
           /\ isSoloModeOf(mode) =>
                 /\ Len(players) = 1 + st.botCount
                 /\ On("NONE") = N
           /\ ~isSoloModeOf(mode) =>
                 /\ Len(players) = 1 + st.allyCount + st.enemyCount
                 /\ \E h \in On("ALLIED") : players[h].id = "player" /\ ~players[h].isBot
                 /\ Cardinality({i \in On("ALLIED") : players[i].isBot}) = st.allyCount
                 /\ Cardinality({i \in On("AXIS") : players[i].isBot}) = st.enemyCount
                 /\ On("NONE") = {}

\* A Free-For-All match created with botCount 3: four players.
C13_Witness ==
    /\ creation.done /\ "settings" \in DOMAIN creation
    /\ mode = "FFA"
    /\ creation.settings.botCount = 3
    /\ Len(players) = 4

\* Player n stands where its circle of radius PLAYER_RADIUS + 5 meets no
\* obstacle, at least 3 * PLAYER_RADIUS from every player created before it.
SafelyPlaced(n) ==
    /\ ClearOfObstacles(players[n].pos, PLAYER_RADIUS + 5)
    /\ \A k \in 1..(n - 1) :
          ~DistLess(players[n].pos, players[k].pos, 3 * PLAYER_RADIUS)

Creating == "settings" \in DOMAIN creation

\* C14 as stated: every player createInitialState has placed is safely
\* placed, whatever points the sampler returned.
C14_AllSafelyPlaced ==
    Creating => \A n \in 1..Len(players) : SafelyPlaced(n)

\* C14: every player createInitialState has placed is safely placed unless
\* getSafeSpawn used up its attempts for it, all the candidates it tested
\* having been rejected, and returned the next sample untested.
C14_SafeUnlessFallback ==
    Creating => \A n \in 1..Len(players) : n \notin creation.fallbacks => SafelyPlaced(n)

\* A match created without any fallback although the last player's first
\* candidates were rejected.
C14_Witness ==
    /\ Creating /\ creation.done
    /\ Len(players) >= 2
    /\ creation.fallbacks = {}
    /\ creation.attempts > 0

\* ----------------------------------------------------- checkRectCollide alone
\* Circles with integral centre and radius around two small rectangles.
\* How far beyond the rectangles' corner the centres range.
GeomReach == 5
MaxRadius == 5
ProbeRects ==
    { [x |-> 0, y |-> 0, w |-> 4, h |-> 3, type |-> "WALL"],
      [x |-> 2, y |-> 1, w |-> 1, h |-> 5, type |-> "COVER_FULL"] }

InitGeom ==
    \E cx \in (0 - GeomReach)..(4 + GeomReach), cy \in (0 - GeomReach)..(4 + GeomReach),
       r \in 0..MaxRadius,
       rect \in ProbeRects :
       /\ StateOf(StaticOf(SetupCombat("TDM"), SettingsCombat, MapCombat, 16),
                  FreshState(SetupCombat("TDM"), MapCombat, <<>>, Epoch))
       /\ creation = Created
       /\ probe = [applied |-> FALSE, circle |-> Circle(cx, cy, r), rect |-> rect]

\* One call checkRectCollide(circle, rect).
CollideCall ==
    /\ ~probe.applied /\ "circle" \in DOMAIN probe
    /\ probe' = [applied |-> TRUE, circle |-> probe.circle, rect |-> probe.rect,
                 result |-> checkRectCollide(probe.circle, probe.rect)]
    /\ UNCHANGED <<mode, difficulty, fireMode, mapWidth, mapHeight, obstacles, players,
                   bullets, controlPoints, loot, zone, camera, scores, timeRemaining,
                   killFeed, hardpointTimer, now, dt, ticks, lastCounts, lastNearest,
                   zoneHits, gameOverTriggered, gameOverCalls, creation>>

SpecGeom == InitGeom /\ [][CollideCall]_vars

\* Some point of the rectangle (edges included) lies within distance r of
\* the centre: with integral data the nearest point of the rectangle is a
\* lattice point.
WithinReach(c, rect) ==
    \E px \in rect.x..(rect.x + rect.w), py \in rect.y..(rect.y + rect.h) :
       (c.x - px) * (c.x - px) + (c.y - py) * (c.y - py) <= c.r * c.r

\* C15: checkRectCollide(circle, rect) is true exactly when the squared
\* distance from the centre to the nearest point of the rectangle is at
\* most r * r; so a centre inside the rectangle or on its edge collides for
\* every r >= 0.
C15_CollideIffWithinReach ==
    probe.applied =>
       /\ probe.result <=> WithinReach(probe.circle, probe.rect)
       /\ (/\ probe.circle.x \in probe.rect.x..(probe.rect.x + probe.rect.w)
           /\ probe.circle.y \in probe.rect.y..(probe.rect.y + probe.rect.h))
          => probe.result

\* A centre at distance exactly r > 0 to the left of the rectangle is found
\* colliding.
C15_Witness ==
    /\ probe.applied
    /\ probe.circle.r > 0
    /\ probe.circle.x = probe.rect.x - probe.circle.r
    /\ probe.circle.y \in probe.rect.y..(probe.rect.y + probe.rect.h)
    /\ probe.result

\* ------------------------------------------------------------------ scoring
RECURSIVE KillsFrom(_, _, _)
\* The kills of the players of team tm, from player i on.
KillsFrom(ps, tm, i) ==
    IF i > Len(ps) THEN 0
    ELSE (IF ps[i].team = tm THEN ps[i].kills ELSE 0) + KillsFrom(ps, tm, i + 1)

\* C16: in Team Deathmatch, after every call, scores[ALLIED] and
\* scores[AXIS] are 10 times the kills of the team's players and
\* scores[NONE] is 0; so a team's score is at least 100 exactly when its
\* players have made 10 kills.
C16_TenPerKill ==
    mode = "TDM" =>
       /\ \A tm \in {"ALLIED", "AXIS"} :
             /\ scores[tm] = 10 * KillsFrom(players, tm, 1)
             /\ scores[tm] >= 100 <=> KillsFrom(players, tm, 1) >= 10
       /\ scores["NONE"] = 0

\* The human's team made its tenth kill and stands at 100 points.
C16_Witness ==
    /\ mode = "TDM" /\ ticks > 0
    /\ KillsFrom(players, "ALLIED", 1) = 10
    /\ scores["ALLIED"] = 100

\* ------------------------------------------------- Battle-Royale, late match
MaxTicksEnd == 4
\* Players that fell to the human's pistol earlier in the match.
FallenEarlier == 5
\* Health units the two survivors may have left.
LastHealth == {1, 2, 3}

\* A Battle-Royale match near its end: bots were shot by the human, whose
\* kills fill the kill feed; the human (holding the pistol it picked up) and
\* one bot are left, both outside a zone that has shrunk to 20 pixels, each
\* with a few health units.  With third, one of the FallenEarlier bots is
\* still alive and unhurt at the zone centre.
InitEndgame ==
    \E humanLeft \in LastHealth, botLeft \in LastHealth, zs \in {"WAITING", "SHRINKING"},
       third \in BOOLEAN :
       LET h0 == HumanPlayer(SetupBR, Vec(100, Arena.h \div 2))
           shot == IF third THEN FallenEarlier - 1 ELSE FallenEarlier
           h1 == [h0 EXCEPT !.weapon = "PISTOL", !.ammo = 2, !.kills = shot,
                            !.health = humanLeft, !.lastShotTime = Epoch - 1000]
           b0 == createBot("bot-axis-0", "AXIS", SetupBR, "ELITE", "RIFLE",
                           Vec(195, Arena.h \div 2))
           b1 == [b0 EXCEPT !.health = botLeft]
           gone == [k \in 1..FallenEarlier |->
                      IF third /\ k = FallenEarlier
                      THEN createBot("bot-axis-" \o ToString(k), "AXIS", SetupBR, "ELITE",
                                     "RIFLE", Vec(Arena.w \div 2, Arena.h \div 2))
                      ELSE Fallen(createBot("bot-axis-" \o ToString(k), "AXIS", SetupBR,
                                            "ELITE", "RIFLE", Vec(110, 100 + 40 * k)),
                                  WEAPONS["PISTOL"].damage)]
           feed == [k \in 1..shot |->
                      [killer |-> "YOU", victim |-> "bot-axis-" \o ToString(shot + 1 - k)]]
           z0 == InitialZone(Arena.w, Arena.h)
       IN  MatchState(StaticOf(SetupBR, SettingsBR, MapBR, 16),
              [FreshState(SetupBR, MapBR, <<h1, b1>> \o gone, Epoch) EXCEPT
                  !.camera = Centred(h0.pos),
                  !.timeRemaining = 1080000 - 600000,
                  !.killFeed = SubSeq(feed, 1, Min(5, shot)),
                  !.loot = [k \in 1..Len(MapBR.loot) |-> [MapBR.loot[k] EXCEPT !.active = FALSE]],
                  !.zone = [z0 EXCEPT !.radius = Zr(20), !.targetRadius2 = Zr(20),
                                      !.state = zs,
                                      !.shrinkTimer = IF zs = "WAITING" THEN 20000 ELSE 0]])

InputsEnd == {NoInput, Key("d"), Aim(NoInput, 50, 0, TRUE)}

TickEnd ==
    /\ mode = "BATTLE_ROYALE"
    /\ ticks < MaxTicksEnd
    /\ \E input \in InputsEnd, fire \in BOOLEAN :
          \E g \in {FrameBody(input,
                      [i \in 1..Len(players) |->
                          Draw(fire, FALSE, Vec(100, Arena.h \div 2), FALSE, NoSamples)],
                      now + FrameGap)} :
             \E go \in BOOLEAN :
                Frame(Respawn(g, [i \in 1..Len(players) |->
                                    Draw(FALSE, FALSE, Vec(0, 0), go, NoSamples)]),
                      now + FrameGap)

SpecEndgame == InitEndgame /\ [][TickEnd]_vars

\* C17: after every call state.killFeed holds at most 5 entries.
C17_FeedBounded == Len(killFeed) <= 5

\* C20: in Battle-Royale a player that is inactive before a frame is
\* inactive after it, and the number of active players does not grow.
C20_NoRespawn ==
    [][mode = "BATTLE_ROYALE" =>
          /\ \A i \in 1..Len(players) : ~players[i].active => ~players'[i].active
          /\ Cardinality({i \in 1..Len(players') : players'[i].active})
                <= Cardinality({i \in 1..Len(players) : players[i].active})]_vars

\* The human was stabbed in the opening of a Battle-Royale match and is
\* still down a hundred frames later.
C20_Witness ==
    /\ mode = "BATTLE_ROYALE"
    /\ ticks >= 100
    /\ \E i \in 1..Len(players) :
          /\ ~players[i].active
          /\ players[i].deaths = 1
          /\ zoneHits[i] = 0

\* ------------------------------------------------------------ end of match
ActiveCount(ps) == Cardinality({i \in 1..Len(ps) : ps[i].active})

\* The score limit is reached or the clock has run out.
Due(sc, left) == sc["ALLIED"] >= 100 \/ sc["AXIS"] >= 100 \/ left = 0

\* C18: outside Battle-Royale, a frame of a match not yet declared declares
\* it exactly when it ends with ALLIED or AXIS at 100 or more or with
\* timeRemaining 0; with a score at 100 or more the winner is a team whose
\* score is, whatever the clock says; otherwise the winner is the team with
\* the strictly higher score, NONE when ALLIED and AXIS are equal; and
\* onGameOver is invoked once and never again.
C18_Outcome ==
    [][mode # "BATTLE_ROYALE" =>
          /\ ~gameOverTriggered => (gameOverTriggered' <=> Due(scores', timeRemaining'))
          /\ gameOverTriggered => ~Declared /\ gameOverTriggered'
          /\ Declared =>
                /\ Len(gameOverCalls') = 1
                /\ IF scores'["ALLIED"] >= 100 \/ scores'["AXIS"] >= 100
                   THEN Winner \in {"ALLIED", "AXIS"} /\ scores'[Winner] >= 100
                   ELSE Winner = IF scores'["ALLIED"] > scores'["AXIS"] THEN "ALLIED"
                                 ELSE IF scores'["AXIS"] > scores'["ALLIED"] THEN "AXIS"
                                 ELSE "NONE"]_vars

\* The clock ran out on a drawn Team Deathmatch: no winner.
C18_Witness ==
    /\ mode = "TDM"
    /\ timeRemaining = 0
    /\ scores["ALLIED"] = scores["AXIS"] /\ scores["ALLIED"] > 0
    /\ gameOverCalls = <<"NONE">>

\* Solo matches: Battle-Royale near its end, Free-For-All and Gun-Game in
\* progress (next to Team Deathmatch).
InitOutcome == InitEndgame \/ InitCombat \/ InitLate
NextOutcome == TickEnd \/ TickCombat
SpecOutcome == InitOutcome /\ [][NextOutcome]_vars

\* The human is the only player left active.
HumanAlone(ps) ==
    /\ ActiveCount(ps) = 1
    /\ \A i \in 1..Len(ps) : ps[i].active => ps[i].id = "player"

HumanDown(ps) == \E i \in 1..Len(ps) : ps[i].id = "player" /\ ~ps[i].active

\* C19 as stated: in Battle-Royale, Free-For-All and Gun-Game a frame of a
\* match not yet ended that leaves at most one player active ends it, and in
\* Battle-Royale the winner is ALLIED exactly when the one player left is
\* the human.
C19_EndsAtLastStanding ==
    [][isSoloModeOf(mode) =>
          /\ ~gameOverTriggered /\ ActiveCount(players') <= 1 => gameOverTriggered'
          /\ mode = "BATTLE_ROYALE" /\ Declared =>
                (Winner = "ALLIED" <=> HumanAlone(players'))]_vars

\* C19: in Battle-Royale a frame of a match not yet ended ends it exactly
\* when it leaves at most one player active or the human inactive; the
\* winner is ALLIED when the one player left is the human and AXIS
\* otherwise.  In Free-For-All and Gun-Game the number of active players
\* ends nothing: a match is ended only by the score limit or the clock.
C19_RoyaleEndsAtLastStanding ==
    [][/\ mode = "BATTLE_ROYALE" =>
             /\ ~gameOverTriggered =>
                   (gameOverTriggered' <=>
                       ActiveCount(players') <= 1 \/ HumanDown(players'))
             /\ Declared =>
                   /\ Len(gameOverCalls') = 1
                   /\ Winner = IF HumanAlone(players') THEN "ALLIED" ELSE "AXIS"
       /\ mode \in {"FFA", "GUN_GAME"} =>
             (~gameOverTriggered =>
                 (gameOverTriggered' <=> Due(scores', timeRemaining')))]_vars

\* A Battle-Royale match won by the human as the last player standing.
C19_Witness ==
    /\ mode = "BATTLE_ROYALE"
    /\ HumanAlone(players)
    /\ gameOverCalls = <<"ALLIED">>
    /\ scores["ALLIED"] = 999

\* ------------------------------ Claims C21..C30

\* The indices of the control points that are switched on.
ActivePoints(cps) == {k \in 1..Len(cps) : cps[k].active}

\* C21: in Hardpoint exactly one control point is active when the match is
\* set up and after every call, the rotation call included; in Domination
\* every control point is active in every state.
C21_OneActivePoint ==
    /\ Cardinality(ActivePoints(InitialControlPoints("HARDPOINT", MapObj.controlPoints))) = 1
    /\ ActivePoints(InitialControlPoints("DOMINATION", MapObj.controlPoints))
          = 1..Len(MapObj.controlPoints)
    /\ mode = "HARDPOINT" => Cardinality(ActivePoints(controlPoints)) = 1
    /\ mode = "DOMINATION" => ActivePoints(controlPoints) = 1..Len(controlPoints)

\* A Hardpoint match just after the hill rotated from B to C.
C21_Witness ==
    /\ mode = "HARDPOINT"
    /\ ticks > 0
    /\ hardpointTimer = HARDPOINT_PERIOD
    /\ ActivePoints(controlPoints) = {3}

\* The condition the claim names for a fire attempt of p at time t.
FireAllowed(p, t) ==
    /\ t - p.lastShotTime >= WEAPONS[p.weapon].fireRate
    /\ (p.weapon = "KNIFE" \/ p.ammo > 0)

\* C22: a call of tryFireWeapon changes the bullet list or a player only for
\* a player whose fire interval has elapsed and who holds KNIFE or has ammo
\* left, and then it changes that player alone; every other call leaves
\* players and bullets as they were.  Ammo is never negative, and a shot is
\* stamped at least fireRate ms after the player's previous one.
C22_FireOnlyWhenAllowed ==
    [][/\ (players' # players \/ bullets' # bullets) =>
             \E i \in 1..Len(players) :
                /\ FireAllowed(players[i], now')
                /\ players'[i].lastShotTime = now'
                /\ Len(bullets') > Len(bullets)
                /\ \A j \in 1..Len(players) : j # i => players'[j] = players[j]
       /\ (\A i \in 1..Len(players) : ~FireAllowed(players[i], now')) =>
             players' = players /\ bullets' = bullets
       /\ \A i \in 1..Len(players) :
             /\ players[i].ammo >= 0 /\ players'[i].ammo >= 0
             /\ players'[i].lastShotTime # players[i].lastShotTime =>
                   players'[i].lastShotTime - players[i].lastShotTime
                      >= WEAPONS[players[i].weapon].fireRate]_vars

\* Three attempts of the human with a last round in a firearm: one shot was
\* fired and the other two attempts changed nothing (the bot never fired).
C22_Witness ==
    /\ ticks = MaxShots
    /\ players[1].weapon # "KNIFE"
    /\ players[1].ammo = 0
    /\ players[1].lastShotTime > Epoch
    /\ players[2].lastShotTime = 0
    /\ Len(bullets) = 1

\* ---------------------------------------- Battle-Royale with the trigger held
\* The opening calls of a Battle-Royale match in which the human keeps the
\* mouse button down (a fire request in every call) while steering.
MaxTicksKnife == 5

InputsKnife == {Aim(NoInput, 50, 0, TRUE), Aim(Key("a"), 50, 0, TRUE), Aim(Key("d"), 50, 0, TRUE)}

TickKnife ==
    /\ mode = "BATTLE_ROYALE"
    /\ ticks < MaxTicksKnife
    /\ \E input \in InputsKnife, fire \in BOOLEAN, patrol \in PatrolPoints :
          \E g \in {FrameBody(input,
                      [i \in 1..Len(players) |-> Draw(fire, FALSE, patrol, FALSE, NoSamples)],
                      now + dt)} :
             Frame(Respawn(g, [i \in 1..Len(players) |->
                                 Draw(FALSE, FALSE, patrol, FALSE, NoSamples)]),
                   now + dt)

SpecKnife == InitBR /\ [][TickKnife]_vars

\* C23: a call in which the human requests fire while active, holding KNIFE,
\* not reloading and with the fire interval elapsed, and which leaves the
\* human active with KNIFE, fires (it stamps lastShotTime with the call's
\* time) and leaves the ammo as it was, whatever the ammo count is.
C23_KnifeFiresWithoutAmmo ==
    [][\A i \in 1..Len(players) :
          /\ ~players[i].isBot /\ players[i].active /\ players'[i].active
          /\ players[i].weapon = "KNIFE" /\ players'[i].weapon = "KNIFE"
          /\ ~players[i].isReloading
          /\ now' - players[i].lastShotTime >= WEAPONS["KNIFE"].fireRate
          => /\ players'[i].lastShotTime = now'
             /\ players'[i].ammo = players[i].ammo]_vars

\* ------------------------------------------------------------------ reloads
\* Team-Deathmatch and Gun-Game matches in progress in which the human's
\* magazine is empty, one round short or full, and the human is idle, is
\* reloading with ReloadLeft ms to go, or asked for the reload ReloadAgo ms
\* ago; the human may have fallen (while reloading or not).
MaxTicksReload == 4
ReloadLeft == 30
ReloadAgo == 10

InitReload ==
    \E m \in {"TDM", "GUN_GAME"}, left \in {0, 1, 2}, stage \in {"idle", "soon", "later"},
       humanUp \in BOOLEAN :
       LET setup == SetupCombat(m)
           h0 == HumanPlayer(setup, Vec(100, Arena.h \div 2))
           w == WEAPONS[h0.weapon]
           h1 == [h0 EXCEPT
                    !.ammo = IF left = 2 THEN w.magSize ELSE left * (w.magSize - 1),
                    !.isReloading = (stage # "idle"),
                    !.reloadTimer = IF stage = "soon" THEN Epoch + ReloadLeft
                                    ELSE IF stage = "later" THEN Epoch - ReloadAgo + w.reloadTime
                                    ELSE 0]
           b0 == createBot("bot-axis-0", "AXIS", setup, "ELITE", "RIFLE",
                           Vec(140, Arena.h \div 2))
       IN  /\ stage # "idle" => left # 2
           /\ MatchState(StaticOf(setup, SettingsCombat, MapCombat, 16),
                 [FreshState(setup, MapCombat,
                             << IF humanUp THEN h1 ELSE Fallen(h1, WEAPONS["RIFLE"].damage), b0 >>,
                             Epoch)
                    EXCEPT !.camera = Centred(h0.pos),
                           !.timeRemaining = 1080000 - 60000])

\* The direction the human faces after a call with the cursor below it.
FacingDown == Atan2Dir(50, 0)

\* The reload key is down exactly in the calls whose cursor is below the
\* human, so that the angle a call leaves tells whether it carried a request.
InputsReload ==
    {Aim(NoInput, 50, 0, FALSE), Aim(NoInput, 50, 0, TRUE),
     Aim(Key("r"), 0, 50, FALSE), Aim(Key("r"), 0, 50, TRUE)}

TickReload ==
    /\ mode \in {"TDM", "GUN_GAME"}
    /\ ticks < MaxTicksReload
    /\ \E input \in InputsReload, fire \in BOOLEAN :
          \E g \in {FrameBody(input,
                      [i \in 1..Len(players) |-> Draw(fire, FALSE, Vec(100, Arena.h \div 2), FALSE, NoSamples)],
                      now + FrameGap)} :
             LET down == {i \in 1..Len(players) : ~g.players[i].active}
             IN  \E back \in SUBSET down :
                    Frame(Respawn(g, [i \in 1..Len(players) |->
                                 Draw(FALSE, FALSE, Vec(0, 0), i \in back,
                                      Samples(Vec(100, Arena.h \div 2)))]),
                          now + FrameGap)

SpecReload == InitReload /\ [][TickReload]_vars

\* C24: the human's reload starts exactly in a call in which the human is
\* active, the reload key is down, no reload is running, the weapon is not
\* KNIFE and the magazine (after the call's own shot, if any) is not full,
\* and the deadline is then the call's time plus the weapon's reloadTime.
\* While a reload is running the human fires nothing and the deadline stays
\* where it is.  The reload ends exactly in the first call whose time is past
\* the deadline with the human active: ammo is then the magSize of the
\* weapon held and isReloading is cleared.
C24_Reload ==
    [][\A i \in 1..Len(players) :
          ~players[i].isBot =>
             LET p == players[i]
                 q == players'[i]
                 requested == p.active /\ q.angle = FacingDown
                 shot == IF q.lastShotTime = now' THEN 1 ELSE 0
             IN  /\ ~p.isReloading =>
                       /\ q.isReloading <=>
                             /\ requested
                             /\ p.weapon # "KNIFE"
                             /\ p.ammo - shot < WEAPONS[p.weapon].magSize
                       /\ q.isReloading =>
                             q.reloadTimer = now' + WEAPONS[p.weapon].reloadTime
                 /\ p.isReloading =>
                       /\ q.lastShotTime = p.lastShotTime
                       /\ q.reloadTimer = p.reloadTimer
                       /\ ~q.isReloading <=> (p.active /\ now' > p.reloadTimer)
                       /\ ~q.isReloading => q.ammo = WEAPONS[q.weapon].magSize]_vars

\* A reload that ran out: the human, never fallen, holds a full magazine
\* again and the deadline it started with has passed.
C24_Witness ==
    /\ mode \in {"TDM", "GUN_GAME"}
    /\ players[1].reloadTimer = Epoch + ReloadLeft
    /\ now > players[1].reloadTimer
    /\ ~players[1].isReloading
    /\ players[1].deaths = 0
    /\ players[1].ammo = WEAPONS[players[1].weapon].magSize

\* ------------------------------------------------------------ lines of fire
\* Team-Deathmatch and Free-For-All matches in which the human, a bot of the
\* human's side and an AXIS bot stand in one line, 30 pixels apart.  The
\* human walks and fires along the line; in Team-Deathmatch the bot next to
\* it may fire as well, and no other bot's fire draw succeeds, so that every
\* bullet in flight is ALLIED (Team-Deathmatch) or the human's own
\* (Free-For-All).
MaxTicksLine == 4

InitLine ==
    \E m \in {"TDM", "FFA"} :
       LET setup == SetupCombat(m)
           h0 == HumanPlayer(setup, Vec(100, Arena.h \div 2))
           b1 == createBot("bot-allied-0", "ALLIED", setup, "ELITE", "RIFLE",
                           Vec(130, Arena.h \div 2))
           b2 == createBot("bot-axis-0", "AXIS", setup, "ELITE", "RIFLE",
                           Vec(160, Arena.h \div 2))
       IN  MatchState(StaticOf(setup, SettingsCombat, MapCombat, 16),
              [FreshState(setup, MapCombat, <<h0, b1, b2>>, Epoch) EXCEPT
                  !.camera = Centred(h0.pos),
                  !.timeRemaining = 1080000 - 60000])

InputsLine ==
    {Aim(NoInput, 50, 0, FALSE), Aim(NoInput, 50, 0, TRUE), Aim(Key("d"), 50, 0, TRUE),
     [Aim(Key("d"), 50, 0, TRUE) EXCEPT !.shift = TRUE]}

TickLine ==
    /\ mode \in {"TDM", "FFA"}
    /\ ticks < MaxTicksLine
    /\ \E input \in InputsLine, fire \in BOOLEAN :
          \E g \in {FrameBody(input,
                      [i \in 1..Len(players) |->
                          Draw(fire /\ mode = "TDM" /\ players[i].team = "ALLIED",
                               FALSE, Vec(100, Arena.h \div 2), FALSE, NoSamples)],
                      now + FrameGap)} :
             Frame(Respawn(g, [i \in 1..Len(players) |->
                                 Draw(FALSE, FALSE, Vec(0, 0), FALSE, NoSamples)]),
                   now + FrameGap)

SpecLine == InitLine /\ [][TickLine]_vars

\* Bullet b may hurt player p: another team's bullet in team modes, another
\* player's bullet in solo modes.
Foe(b, p) == IF isTeamMode THEN b.team # p.team ELSE b.ownerId # p.id

\* C25: a player's health falls in a call only if a bullet that may hurt it
\* (of another team in team modes, of another owner in solo modes) was
\* spent in that call, and by no less than that bullet's damage; a player
\* with no such bullet about keeps its health, whatever bullets of its own
\* team, or of its own, pass through it.
C25_NoFriendlyFire ==
    [][\A j \in 1..Len(players) :
          players'[j].health < players[j].health =>
             \E n \in 1..Len(bullets') :
                /\ ~bullets'[n].active
                /\ Foe(bullets'[n], players[j])
                /\ players[j].health - players'[j].health >= bullets'[n].damage]_vars

\* Free-For-All: the human, walking along its own line of fire, is unhurt,
\* and its bullets have hurt a bot that carries the human's team label.
C25_Witness ==
    /\ mode = "FFA"
    /\ players[1].pos.x > 100
    /\ players[1].health = players[1].maxHealth
    /\ \E j \in 2..Len(players) :
          /\ players[j].team = players[1].team
          /\ players[j].health < players[j].maxHealth

\* -------------------------------------------------------- cover in the line
\* A Team-Deathmatch match on the arena with one 10 x 10 obstacle of any type
\* on the middle line, where a bullet the human fires along the line comes
\* to rest after its first or its second step.
CoverTypes == {"WALL", "COVER_HALF", "COVER_FULL", "WINDOW"}

InitCover ==
    \E type \in CoverTypes, ox \in {120, 145} :
       LET setup == SetupCombat("TDM")
           h0 == HumanPlayer(setup, Vec(100, Arena.h \div 2))
           b0 == createBot("bot-axis-0", "AXIS", setup, "ELITE", "RIFLE",
                           Vec(195, Arena.h \div 2))
           map == [MapCombat EXCEPT !.obstacles =
                      <<[x |-> ox, y |-> Arena.h \div 2 - 5, w |-> 10, h |-> 10, type |-> type]>>
                      \o MapCombat.obstacles]
       IN  MatchState(StaticOf(setup, SettingsCombat, map, 16),
              [FreshState(setup, map, <<h0, b0>>, Epoch) EXCEPT
                  !.camera = Centred(h0.pos),
                  !.timeRemaining = 1080000 - 60000])

SpecCover == InitCover /\ [][TickCombat]_vars

\* pos lies inside the rectangle w, borders included.
InsideRect(pos, w) ==
    pos.x >= w.x /\ pos.x <= w.x + w.w /\ pos.y >= w.y /\ pos.y <= w.y + w.h

\* C26: every bullet whose position after a call lies inside an obstacle of
\* type WALL, COVER_HALF or COVER_FULL has been deactivated by that call.
C26_CoverStopsBullets ==
    \A n \in 1..Len(bullets) :
       (\E k \in 1..Len(obstacles) :
           /\ obstacles[k].type \in {"WALL", "COVER_HALF", "COVER_FULL"}
           /\ InsideRect(bullets[n].pos, obstacles[k]))
       => ~bullets[n].active

\* The contest of this step found both teams, or neither, on point c.
BothOn(c) == lastCounts'[c].seen /\ lastCounts'[c].allied > 0 /\ lastCounts'[c].axis > 0
NoneOn(c) == lastCounts'[c].seen /\ lastCounts'[c].allied = 0 /\ lastCounts'[c].axis = 0

\* The progress of point c half a point lower, floored at 0, and its owner
\* as before.
Decayed(c) ==
    /\ controlPoints'[c].captureProgress = Max(0, controlPoints[c].captureProgress - Cp(1) \div 2)
    /\ controlPoints'[c].team = controlPoints[c].team

\* C27 as stated: in Domination and Hardpoint a call (other than a rotation)
\* that finds both teams or neither team on a point with progress > 0 lowers
\* the progress by 0.5, floored at 0, and leaves the owner unchanged.
C27_DecayWhenBothOrNeither ==
    [][isObjective /\ ~RotationDue =>
          \A c \in 1..Len(controlPoints) :
             controlPoints[c].captureProgress > 0 /\ (BothOn(c) \/ NoneOn(c)) =>
                Decayed(c)]_vars

\* C27: a call (other than a rotation) that finds neither team on a point
\* with progress > 0 lowers the progress by 0.5, floored at 0, and leaves
\* the owner unchanged; a call that finds both teams on it leaves progress
\* and owner as they were.
C27_DecayWhenNeither ==
    [][isObjective /\ ~RotationDue =>
          \A c \in 1..Len(controlPoints) :
             /\ controlPoints[c].captureProgress > 0 /\ NoneOn(c) => Decayed(c)
             /\ BothOn(c) =>
                   /\ controlPoints'[c].captureProgress = controlPoints[c].captureProgress
                   /\ controlPoints'[c].team = controlPoints[c].team]_vars

\* Point B, found empty by the last call, has decayed below every progress
\* value the match state was taken with.
C27_Witness ==
    /\ isObjective
    /\ ticks > 0
    /\ lastCounts[2].seen /\ lastCounts[2].allied = 0 /\ lastCounts[2].axis = 0
    /\ controlPoints[2].captureProgress > 0
    /\ controlPoints[2].captureProgress < Cp(99) - 1

\* ------------------------------------------------------- Hardpoint rotations
\* A Hardpoint match from its first call: the human stays where it spawned
\* (inside B, or inside A); the one bot, of either team, makes for the human
\* when it is an enemy and for the hill otherwise; nobody's fire draw
\* succeeds.  The match runs through MaxRotations rotations and on.
MaxRotations == 3
\* Milliseconds of wall clock per call: a 60 Hz display.
RotateGap == 17

InitRotate ==
    \E hp \in {Vec(100, Arena.h \div 2), Vec(60, 80)}, tm \in {"ALLIED", "AXIS"} :
       InitialState(SetupObj("HARDPOINT"), SettingsObj, MapObj,
          << HumanPlayer(SetupObj("HARDPOINT"), hp),
             createBot("bot-0", tm, SetupObj("HARDPOINT"), "ELITE", "RIFLE",
                       Vec(195, Arena.h \div 2)) >>,
          16, Epoch)

TickRotate ==
    /\ mode = "HARDPOINT"
    /\ ticks < MaxRotations * HARDPOINT_PERIOD + 2
    /\ render(NoInput,
              [i \in 1..Len(players) |->
                  Draw(FALSE, FALSE, Vec(100, Arena.h \div 2), FALSE, NoSamples)],
              now + RotateGap)

SpecRotate == InitRotate /\ [][TickRotate]_vars

\* C28: after n calls of updateGame the hill is control point number
\* (n div 1800) mod 3 (A, B, C, A, ...) and the timer stands at
\* 1800 - n mod 1800, so the hill moves in every 1800th call and in no
\* other; every inactive point has team NONE and captureProgress 0 in every
\* state.  The rotation call resets every point: it leaves every owner NONE
\* and every progress 0, but for the one capture step the same call gives a
\* team standing alone on the new hill.
C28_Rotation ==
    /\ [](mode = "HARDPOINT" =>
            /\ ActivePoints(controlPoints) = {((ticks \div HARDPOINT_PERIOD) % Len(controlPoints)) + 1}
            /\ hardpointTimer = HARDPOINT_PERIOD - (ticks % HARDPOINT_PERIOD)
            /\ \A c \in 1..Len(controlPoints) :
                  ~controlPoints[c].active =>
                     controlPoints[c].team = "NONE" /\ controlPoints[c].captureProgress = 0)
    /\ [][mode = "HARDPOINT" =>
            /\ ActivePoints(controlPoints') # ActivePoints(controlPoints) <=> RotationDue
            /\ RotationDue =>
                  \A c \in 1..Len(controlPoints) :
                     /\ controlPoints'[c].team = "NONE"
                     /\ controlPoints'[c].captureProgress =
                           IF (lastCounts'[c].allied > 0) # (lastCounts'[c].axis > 0)
                           THEN Cp(1) ELSE 0]_vars

\* The hill is back on A after three rotations, and A, which ALLIED had
\* captured and scored on during its first turn as the hill, is neutral
\* again.
C28_Witness ==
    /\ mode = "HARDPOINT"
    /\ ticks = MaxRotations * HARDPOINT_PERIOD
    /\ ActivePoints(controlPoints) = {1}
    /\ controlPoints[1].team = "NONE"
    /\ scores["ALLIED"] > 0

\* The zone has closed: its target radius was clamped to 0 and the radius
\* has come down to it.
ZoneClosed == zone.targetRadius2 = 0 /\ zone.radius <= 0

\* C29: in Battle-Royale the zone radius is never negative, and once the
\* zone has closed the radius stays 0 and the zone state changes no more.
C29_ZoneClosesForGood ==
    /\ [](mode = "BATTLE_ROYALE" => zone.radius >= 0)
    /\ [][mode = "BATTLE_ROYALE" /\ ZoneClosed =>
            zone'.radius = 0 /\ zone'.state = zone.state]_vars

\* The AI states updateBotAI assigns.
BotStates == {"PATROL", "ATTACK", "CAPTURE", "LOOT", "ZONE_MOVE"}

\* C30: in every mode every bot's AI state is one of PATROL, ATTACK, CAPTURE,
\* LOOT and ZONE_MOVE, never RETREAT; ZONE_MOVE and LOOT occur in
\* Battle-Royale only and CAPTURE in Domination and Hardpoint only.
C30_BotStates ==
    \A i \in 1..Len(players) :
       players[i].isBot =>
          /\ players[i].state \in BotStates
          /\ players[i].state \in {"ZONE_MOVE", "LOOT"} => mode = "BATTLE_ROYALE"
          /\ players[i].state = "CAPTURE" => isObjective

\* A Battle-Royale bot running for the zone after some calls.
C30_Witness ==
    /\ mode = "BATTLE_ROYALE"
    /\ ticks > 0
    /\ \E i \in 1..Len(players) :
          players[i].isBot /\ players[i].active /\ players[i].state = "ZONE_MOVE"

\* ------------------------------------------------------------ Claims C31..C40

\* ------------------------------------------------------------- lines of sight
\* Team-Deathmatch and Free-For-All matches on a 900 pixel wide map: the
\* human on the middle line, a bot of the human's side 30 pixels above it and
\* an AXIS bot on the middle line, either 95 pixels from the human or just
\* beyond the vision range of both.  One obstacle (a WALL or full cover)
\* stands between the human and the bot above it, or between the human and
\* the AXIS bot.
SightWidth == 900

MapSight(type, o) ==
    [mapWidth |-> SightWidth, mapHeight |-> Arena.h,
     obstacles |-> <<[x |-> o.x, y |-> o.y, w |-> 10, h |-> 10, type |-> type]>>
                      \o BoundaryWalls(SightWidth, Arena.h),
     controlPoints |-> StandardControlPoints(SightWidth, Arena.h),
     loot |-> <<>>]

InitSight ==
    \E m \in {"TDM", "FFA"}, type \in {"WALL", "COVER_FULL"},
       o \in {Vec(95, Arena.h \div 2 - 20), Vec(150, Arena.h \div 2 - 5)},
       far \in BOOLEAN, humanUp \in BOOLEAN :
       LET setup == SetupCombat(m)
           map == MapSight(type, o)
           h0 == HumanPlayer(setup, Vec(100, Arena.h \div 2))
           b1 == createBot("bot-allied-0", "ALLIED", setup, "ELITE", "RIFLE",
                           Vec(100, Arena.h \div 2 - 30))
           b2 == createBot("bot-axis-0", "AXIS", setup, "ELITE", "RIFLE",
                           Vec(IF far THEN 100 + VisionRange + 5 ELSE 195, Arena.h \div 2))
       IN  MatchState(StaticOf(setup, SettingsCombat, map, 16),
              [FreshState(setup, map,
                          << IF humanUp THEN h0 ELSE Fallen(h0, WEAPONS["RIFLE"].damage),
                             b1, b2 >>, Epoch)
                 EXCEPT !.camera = Centred(h0.pos),
                        !.timeRemaining = 1080000 - 60000])

SpecSight == InitSight /\ [][TickCombat]_vars

\* Where bot i finds player j during this step: players are updated in list
\* order, so those before the bot have moved and those after it have not.
SeenPos(i, j) == IF j < i THEN players'[j].pos ELSE players[j].pos

\* The players bot i can perceive during this step.
Visible(i) ==
    {j \in 1..Len(players) :
        /\ players[j].active
        /\ j # i
        /\ ~(isTeamMode /\ players[j].team = players[i].team)
        /\ DistLess(players[i].pos, SeenPos(i, j), VisionRange)
        /\ ~checkWallBetween(players[i].pos, SeenPos(i, j), obstacles)}

\* C31: in a call in which nobody falls, the nearestEnemy of every active bot
\* is one of the players it can perceive (active, not itself, not a teammate
\* in team modes, strictly within the vision range, no WALL between) and no
\* perceivable player is nearer; it is nobody exactly when no player is
\* perceivable, and exactly then the bot ends the call outside ATTACK.
C31_NearestVisible ==
    [][(\A k \in 1..Len(players) : players[k].active => players'[k].deaths = players[k].deaths)
       /\ mode \in {"TDM", "FFA"} =>
          \A i \in 1..Len(players) :
             players[i].isBot /\ players[i].active =>
                /\ lastNearest'[i] = "none" <=> Visible(i) = {}
                /\ players'[i].state = "ATTACK" <=> Visible(i) # {}
                /\ Visible(i) # {} =>
                      \E j \in Visible(i) :
                         /\ lastNearest'[i] = players[j].id
                         /\ \A k \in Visible(i) :
                               dist2(players[i].pos, SeenPos(i, j))
                                  <= dist2(players[i].pos, SeenPos(i, k))]_vars

\* Free-For-All: the wall hides the human, 30 pixels away, from the bot above
\* it, whose nearest enemy is the bot some 100 pixels away.
C31_Witness ==
    /\ mode = "FFA"
    /\ ticks > 0
    /\ players[1].active
    /\ DistLess(players[2].pos, players[1].pos, 40)
    /\ checkWallBetween(players[2].pos, players[1].pos, obstacles)
    /\ lastNearest[2] = players[3].id

\* ------------------------------------------------------------ loot in sight
\* Battle-Royale from its first call with two loot items on the middle line,
\* in either list order: a PISTOL 135 pixels from the bot, and a RIFLE that
\* lies 45 pixels from the bot or, NearStep pixels closer, within pickup
\* range of it.  The human, the mouse button held, starts between the items
\* or within pickup range of the RIFLE.
NearStep == 25
LootNear(dx) == LootItem(240 - dx, Arena.h \div 2, "RIFLE")
LootFar == LootItem(60, Arena.h \div 2, "PISTOL")

InitLoot ==
    \E dx \in {0, NearStep}, farFirst \in BOOLEAN, hx \in {100, 150, 225} :
       InitialState(SetupBR, SettingsBR,
          [MapBR EXCEPT !.loot = IF farFirst THEN <<LootFar, LootNear(dx)>>
                                 ELSE <<LootNear(dx), LootFar>>],
          << HumanPlayer(SetupBR, Vec(hx, Arena.h \div 2)),
             createBot("bot-axis-0", "AXIS", SetupBR, "ELITE", "RIFLE",
                       Vec(195, Arena.h \div 2)) >>,
          1000, Epoch)

SpecLoot == InitLoot /\ [][TickKnife]_vars

\* The active loot items within 500 pixels of pos.
LootInReach(pos) == {k \in 1..Len(loot) : loot[k].active /\ DistLess(pos, loot[k].pos, 500)}

\* C32: in a Battle-Royale call that picks up no loot, an active bot that
\* holds KNIFE within 0.8 x zone radius of the zone centre, with active loot
\* within 500 pixels, ends the call in state LOOT, heading for the nearest
\* such item, having perceived no enemy and fired nothing.
C32_LootsNearest ==
    [][mode = "BATTLE_ROYALE" /\ loot' = loot =>
          \A i \in 1..Len(players) :
             /\ players[i].isBot /\ players[i].active
             /\ players[i].weapon = "KNIFE"
             /\ ~BeyondZoneEdge(players[i].pos, zone')
             /\ LootInReach(players[i].pos) # {}
             => /\ players'[i].state = "LOOT"
                /\ lastNearest'[i] = ""
                /\ players'[i].lastShotTime = players[i].lastShotTime
                /\ \E k \in LootInReach(players[i].pos) :
                      /\ players'[i].target = PointTarget(loot[k].pos)
                      /\ \A j \in LootInReach(players[i].pos) :
                            dist2(players[i].pos, loot[k].pos)
                               <= dist2(players[i].pos, loot[j].pos)]_vars

\* Player j reaches its pickup step in this call holding KNIFE, within
\* pickup range of loot item k.
KnifeAt(j, k) ==
    /\ players[j].active /\ zoneHits'[j] = zoneHits[j]
    /\ players[j].weapon = "KNIFE"
    /\ DistLess(players'[j].pos, loot[k].pos, players[j].radius + 15)

\* Player i picks up loot item k in this call.
PicksUp(i, k) ==
    /\ loot[k].active /\ ~loot'[k].active
    /\ KnifeAt(i, k)
    /\ players'[i].weapon = loot[k].weapon
    /\ players'[i].ammo = WEAPONS[loot[k].weapon].magSize

\* C33: in Battle-Royale a loot item that is inactive stays inactive; an
\* item turns inactive only in a call in which exactly one player picks it
\* up, a player holding KNIFE within pickup range, and the first such player
\* in list order; a player's weapon changes only by a pickup, which gives
\* it the item's weapon with a full magazine; and an active item with a
\* KNIFE holder in range is picked up in that call.
C33_LootPickedOnce ==
    [][mode = "BATTLE_ROYALE" =>
          /\ \A k \in 1..Len(loot) :
                /\ ~loot[k].active => ~loot'[k].active
                /\ loot[k].active /\ ~loot'[k].active =>
                      \E i \in 1..Len(players) :
                         /\ PicksUp(i, k)
                         /\ \A j \in 1..Len(players) :
                               j # i => /\ ~PicksUp(j, k)
                                        /\ KnifeAt(j, k) => i < j
                /\ loot[k].active /\ (\E j \in 1..Len(players) : KnifeAt(j, k)) =>
                      ~loot'[k].active
          /\ \A i \in 1..Len(players) :
                players'[i].weapon # players[i].weapon =>
                   \E k \in 1..Len(loot) : PicksUp(i, k)]_vars

\* The human and the bot, both holding KNIFE, came within pickup range of
\* the RIFLE in one call: the human, first in the list, has it, and the bot
\* still holds KNIFE.
C33_Witness ==
    /\ mode = "BATTLE_ROYALE"
    /\ ticks = 1
    /\ \E k \in 1..Len(loot) :
          /\ ~loot[k].active
          /\ players[1].weapon = loot[k].weapon
          /\ players[2].weapon = "KNIFE"
          /\ DistLess(players[1].pos, loot[k].pos, players[1].radius + 15)
          /\ DistLess(players[2].pos, loot[k].pos, players[2].radius + 15)

\* ------------------------------------------------------- walking into walls
\* A Team-Deathmatch match in which the human starts 25 pixels below the
\* arena's top boundary wall (whose x is -50), 100 or 150 pixels from the
\* left edge, and walks; the bot stands far off and nobody's fire draw
\* succeeds.
MaxTicksWalk == 4

InitWalk ==
    \E hx \in {100, 150} :
       LET setup == SetupCombat("TDM")
           h0 == HumanPlayer(setup, Vec(hx, 25))
           b0 == createBot("bot-axis-0", "AXIS", setup, "ELITE", "RIFLE",
                           Vec(195, Arena.h - 50))
       IN  MatchState(StaticOf(setup, SettingsCombat, MapCombat, 16),
              [FreshState(setup, MapCombat, <<h0, b0>>, Epoch) EXCEPT
                  !.camera = Centred(h0.pos),
                  !.timeRemaining = 1080000 - 60000])

InputsWalk == {NoInput, Key("w"), Key("a"), Key("d"), Key("s")}

TickWalk ==
    /\ mode = "TDM"
    /\ ticks < MaxTicksWalk
    /\ \E input \in InputsWalk :
          render(input,
                 [i \in 1..Len(players) |->
                     Draw(FALSE, FALSE, Vec(100, Arena.h \div 2), FALSE, NoSamples)],
                 now + FrameGap)

SpecWalk == InitWalk /\ [][TickWalk]_vars

\* The circle of radius r at pos overlaps an obstacle that is not a WINDOW.
Overlaps(pos, r) ==
    \E k \in 1..Len(obstacles) :
       obstacles[k].type # "WINDOW" /\ checkRectCollide(Circle(pos.x, pos.y, r), obstacles[k])

\* C34: a call that starts with an active player overlapping no obstacle
\* other than WINDOWs, and does not respawn it, ends with that player
\* overlapping no such obstacle.
C34_NoNewOverlap ==
    [][\A i \in 1..Len(players) :
          /\ players[i].active
          /\ players'[i].deaths = players[i].deaths
          /\ ~Overlaps(players[i].pos, players[i].radius)
          => ~Overlaps(players'[i].pos, players'[i].radius)]_vars

\* Matches whose players' kills and deaths so far agree: the end of a
\* Battle-Royale match, and Team-Deathmatch and Free-For-All matches early
\* and late.
InitKills == InitOutcome /\ mode # "GUN_GAME"
SpecKills == InitKills /\ [][NextOutcome]_vars

RECURSIVE TotalOf(_, _)
TotalOf(s, n) == IF n = 0 THEN 0 ELSE s[n] + TotalOf(s, n - 1)
TotalKills(ps) == TotalOf([i \in 1..Len(ps) |-> ps[i].kills], Len(ps))
TotalDeaths(ps) == TotalOf([i \in 1..Len(ps) |-> ps[i].deaths], Len(ps))

\* Player i falls to the zone in this call (updateZoneLogic 266-276).
ZoneDeath(i) ==
    /\ mode = "BATTLE_ROYALE"
    /\ players[i].active
    /\ zoneHits'[i] = zoneHits[i] + 1
    /\ players[i].health - zone'.damagePerTick <= 0

\* Player i falls to a bullet in this call.
BulletDeath(i) == players'[i].deaths > players[i].deaths /\ ~ZoneDeath(i)

\* C35: in every call a player that goes from active to inactive gains
\* exactly one death, no player gains more than one death and an inactive
\* player gains none; the kills gained in the call equal the deaths by
\* bullet in it, and a player gains no more kills than other players fell
\* to bullets; so outside Battle-Royale the kills sum to the deaths after
\* every call, and in Battle-Royale the deaths never fall below the kills,
\* the difference growing by the zone deaths of each call.
C35_KillAccounting ==
    /\ [](mode # "BATTLE_ROYALE" => TotalKills(players) = TotalDeaths(players))
    /\ [](TotalDeaths(players) >= TotalKills(players))
    /\ [][/\ \A i \in 1..Len(players) :
               /\ players'[i].deaths \in {players[i].deaths, players[i].deaths + 1}
               /\ players[i].active /\ ~players'[i].active =>
                     players'[i].deaths = players[i].deaths + 1
               /\ ~players[i].active => players'[i].deaths = players[i].deaths
               /\ ZoneDeath(i) => players'[i].deaths = players[i].deaths + 1
               /\ players'[i].kills - players[i].kills
                     <= Cardinality({v \in 1..Len(players) : v # i /\ BulletDeath(v)})
               /\ players'[i].kills >= players[i].kills
          /\ TotalKills(players') - TotalKills(players)
                = Cardinality({v \in 1..Len(players) : BulletDeath(v)})
          /\ (TotalDeaths(players') - TotalKills(players'))
                - (TotalDeaths(players) - TotalKills(players))
                = Cardinality({v \in 1..Len(players) : ZoneDeath(v)})]_vars

C35_Witness ==
    /\ ticks > 0
    /\ mode = "BATTLE_ROYALE"
    /\ TotalDeaths(players) = TotalKills(players) + 1
    /\ players[1].kills = FallenEarlier
    /\ \E i \in 1..Len(players) : zoneHits[i] > 0 /\ ~players[i].active

\* A Battle-Royale match in which the bot starts near a corner of the arena,
\* just farther than 0.8 x the zone radius from the zone centre; it holds the
\* knife it was created with or a rifle it picked up.  Calls follow one
\* another as long as the match runs.
InitZoneMove ==
    \E w \in {"KNIFE", "RIFLE"}, hx \in {100, 150, 270} :
       LET b0 == createBot("bot-axis-0", "AXIS", SetupBR, "ELITE", "RIFLE", Vec(30, 350))
       IN  InitialState(SetupBR, SettingsBR, MapBR,
              << HumanPlayer(SetupBR, Vec(hx, Arena.h \div 2)),
                 [b0 EXCEPT !.weapon = w, !.ammo = WEAPONS[w].magSize] >>,
              1000, Epoch)
\* One more call of render took place: the loop reschedules itself after
\* every call (GameCanvas.tsx 294), so calls keep coming while one is due.
Called == ticks < MaxTicksKnife /\ ticks' = ticks + 1
SpecZoneMove == InitZoneMove /\ [][TickKnife]_vars /\ WF_ticks(Called)

\* Bot i is in ZONE_MOVE and within 0.8 x the zone radius of the centre.
Settled(i) ==
    /\ players[i].isBot /\ players[i].active
    /\ players[i].state = "ZONE_MOVE"
    /\ ~BeyondZoneEdge(players[i].pos, zone)

\* Bot i has left ZONE_MOVE, is down, or is far from the centre again.
Left(i) ==
    \/ ~players[i].active
    \/ players[i].state # "ZONE_MOVE"
    \/ BeyondZoneEdge(players[i].pos, zone)

CloseAfter == 310
\* Health units the players may have left by then.
HealthLeft == {2, 4}

\* A Battle-Royale match late in its course: the human, a bot holding the
\* knife and a bot holding a rifle, each with little health left, around a
\* zone of radius 20 that waits or shrinks towards 0.
InitClose ==
    \E zs \in {"WAITING", "SHRINKING"}, hx \in {100, 150}, hh \in HealthLeft,
       bh \in HealthLeft :
       LET h0 == HumanPlayer(SetupBR, Vec(hx, Arena.h \div 2))
           b0 == createBot("bot-axis-0", "AXIS", SetupBR, "ELITE", "RIFLE",
                           Vec(195, Arena.h \div 2))
           b1 == createBot("bot-axis-1", "AXIS", SetupBR, "ELITE", "RIFLE",
                           Vec(150, 210))
           z0 == InitialZone(Arena.w, Arena.h)
       IN  MatchState(StaticOf(SetupBR, SettingsBR, MapBR, 4000),
              [FreshState(SetupBR, MapBR,
                          << [h0 EXCEPT !.health = hh],
                             [b0 EXCEPT !.health = bh],
                             [b1 EXCEPT !.health = bh, !.weapon = "RIFLE",
                                        !.ammo = WEAPONS["RIFLE"].magSize] >>,
                          Epoch + 1000 * CloseAfter) EXCEPT
                  !.camera = Centred(h0.pos),
                  !.timeRemaining = 1080000 - 1000 * CloseAfter,
                  !.zone = [z0 EXCEPT !.radius = Zr(20), !.targetRadius2 = 0,
                                      !.state = zs,
                                      !.shrinkTimer = IF zs = "WAITING" THEN 8000
                                                      ELSE 30000]])

\* Calls enough for the zone to wait, close and wait once more.
MaxTicksClose == 24

TickClose ==
    /\ mode = "BATTLE_ROYALE"
    /\ ticks < MaxTicksClose
    /\ \E input \in InputsBR, fire \in FireDrawsBR, patrol \in PatrolPoints :
          \E g \in {FrameBody(input,
                      [i \in 1..Len(players) |-> Draw(fire, FALSE, patrol, FALSE, NoSamples)],
                      now + dt)} :
             Frame(Respawn(g, [i \in 1..Len(players) |->
                                 Draw(FALSE, FALSE, patrol, FALSE, NoSamples)]),
                   now + dt)

\* One more call of render took place in the match: the loop reschedules
\* itself after every call (GameCanvas.tsx 294).
CalledClose == ticks < MaxTicksClose /\ ticks' = ticks + 1
SpecClose == InitClose /\ [][TickClose]_vars /\ WF_ticks(CalledClose)

\* C37: with render called again and again, a Battle-Royale match reaches a
\* state with at most one active player, whatever the human and the bots do.
C37_MatchEnds == <>(mode = "BATTLE_ROYALE" /\ ActiveCount(players) <= 1)

C37_Witness ==
    /\ mode = "BATTLE_ROYALE" /\ ticks > 0
    /\ ActiveCount(players) <= 1
    /\ zone.radius < 0
    /\ \E i \in 1..Len(players) : ~players[i].active /\ zoneHits[i] > 0

MaxTicksRespawn == 3

\* A Team-Deathmatch, Free-For-All or Gun-Game match on the layout with the
\* wall block, in which either player may be down already and both have
\* little health left.
InitRespawn ==
    \E m \in {"TDM", "FFA", "GUN_GAME"}, humanDown \in BOOLEAN, botDown \in BOOLEAN :
       LET setup == SetupCombat(m)
           h0 == HumanPlayer(setup, Vec(100, Arena.h \div 2))
           b0 == createBot("bot-axis-0", "AXIS", setup, "ELITE", "RIFLE",
                           Vec(140, Arena.h \div 2))
           h1 == [(IF m = "GUN_GAME" THEN Progressed(h0, "SMG") ELSE h0)
                     EXCEPT !.health = Hp(20), !.ammo = 5]
           b1 == [(IF m = "GUN_GAME" THEN Progressed(b0, "RIFLE") ELSE b0)
                     EXCEPT !.health = Hp(20), !.ammo = 5]
       IN  MatchState(StaticOf(setup, SettingsCombat, MapCreate, 16),
              [FreshState(setup, MapCreate,
                          << IF humanDown THEN Fallen(h1, WEAPONS["RIFLE"].damage) ELSE h1,
                             IF botDown THEN Fallen(b1, WEAPONS["RIFLE"].damage) ELSE b1 >>,
                          Epoch) EXCEPT
                  !.camera = Centred(h0.pos),
                  !.timeRemaining = 1080000 - 60000])

\* A spawn point next to the wall block, and spawn points in the open.
SpawnBlocked == Vec(160, Arena.h \div 2)
SpawnsClear == {Vec(100, Arena.h \div 2), Vec(150, 110)}
\* The six draws of one respawn: all next to the wall block but the k-th.
SamplesRespawn ==
    {[j \in 1..6 |-> IF j = k THEN c ELSE SpawnBlocked] : k \in 1..6, c \in SpawnsClear}

TickRespawn ==
    /\ mode \in {"TDM", "FFA", "GUN_GAME"}
    /\ ticks < MaxTicksRespawn
    /\ \E input \in {NoInput, Aim(NoInput, 50, 0, TRUE)}, fire \in BOOLEAN :
          \E g \in {FrameBody(input,
                      [i \in 1..Len(players) |->
                          Draw(fire, FALSE, Vec(100, Arena.h \div 2), FALSE, NoSamples)],
                      now + FrameGap)} :
             LET down == {i \in 1..Len(players) : ~g.players[i].active}
             IN  \E back \in SUBSET down, s \in SamplesRespawn :
                    /\ back = {} => s[1] = Vec(100, Arena.h \div 2)
                    /\ Frame(Respawn(g, [i \in 1..Len(players) |->
                                 Draw(FALSE, FALSE, Vec(0, 0), i \in back, s)]),
                             now + FrameGap)

SpecRespawn == InitRespawn /\ [][TickRespawn]_vars

\* Player i goes from inactive to active in this call.
Respawned(i) == ~players[i].active /\ players'[i].active

\* C38: outside Battle-Royale a player that goes from inactive to active in
\* a call has its full health and a full magazine of the weapon it holds
\* after it, and the call leaves its team and deaths as they were, and its
\* weapon and kills too unless one of its bullets made a kill in the call;
\* it stands on one of the points drawn, clear of every obstacle when one of
\* the six points drawn is clear.
C38_Respawn ==
    [][mode # "BATTLE_ROYALE" =>
          \A i \in 1..Len(players) :
             Respawned(i) =>
                /\ players'[i].health = players[i].maxHealth
                /\ players'[i].maxHealth = players[i].maxHealth
                /\ players'[i].ammo = WEAPONS[players'[i].weapon].magSize
                /\ players'[i].team = players[i].team
                /\ players'[i].deaths = players[i].deaths
                /\ (\A v \in 1..Len(players) : players'[v].deaths = players[v].deaths)
                      => /\ players'[i].weapon = players[i].weapon
                         /\ players'[i].kills = players[i].kills
                /\ players'[i].pos \in SpawnsClear
                /\ ClearOfObstacles(players'[i].pos, PLAYER_RADIUS)]_vars

\* The human is back in a Gun-Game match with the weapon it had reached.
C38_Witness ==
    /\ mode = "GUN_GAME" /\ ticks > 0
    /\ players[1].active /\ players[1].deaths = 1
    /\ players[1].health = players[1].maxHealth
    /\ players[1].weapon = "SMG"
    /\ players[1].pos = Vec(150, 110)

\* C39: in the state createInitialState returns, in Battle-Royale every
\* player holds the knife with ammo 0, in Gun-Game every player holds
\* GUN_GAME_ORDER[0], and in every other mode every player holds the
\* configured starting weapon with ammo equal to its magazine size.
C39_InitialWeapons ==
    creation.done /\ ticks = 0 /\ "weapon" \in DOMAIN creation =>
       \A i \in 1..Len(players) :
          IF mode = "BATTLE_ROYALE"
          THEN players[i].weapon = "KNIFE" /\ players[i].ammo = 0
          ELSE IF mode = "GUN_GAME"
          THEN players[i].weapon = GUN_GAME_ORDER[1]
          ELSE /\ players[i].weapon = creation.weapon
               /\ players[i].ammo = WEAPONS[players[i].weapon].magSize

\* A Gun-Game match in which the human has reached the knife (range 50) and
\* the bot stands 70 to 90 pixels to its right, unhurt or nearly down.
InitRange ==
    \E bx \in {170, 180, 190}, botHurt \in BOOLEAN :
       LET setup == SetupCombat("GUN_GAME")
           h0 == HumanPlayer(setup, Vec(100, Arena.h \div 2))
           b0 == createBot("bot-axis-0", "AXIS", setup, "ELITE", "RIFLE",
                           Vec(bx, Arena.h \div 2))
           b1 == Progressed(b0, "SNIPER")
       IN  MatchState(StaticOf(setup, SettingsCombat, MapCombat, 16),
              [FreshState(setup, MapCombat,
                          << Progressed(h0, "KNIFE"),
                             IF botHurt THEN [b1 EXCEPT !.health = Hp(20)] ELSE b1 >>,
                          Epoch) EXCEPT
                  !.camera = Centred(h0.pos),
                  !.timeRemaining = 1080000 - 60000])
SpecRange == InitRange /\ [][TickCombat]_vars

\* Every bullet the call advanced ends it beyond its range.
AllExpired ==
    /\ bullets' # <<>>
    /\ \A n \in 1..Len(bullets') :
          bullets'[n].distanceTraveled > bullets'[n].maxDistance

\* C40: a call in which every bullet advanced passes its range damages no
\* player and makes no kill.
C40_NoDamageAtExpiry ==
    [][AllExpired /\ zoneHits' = zoneHits =>
          \A i \in 1..Len(players) :
             /\ players'[i].health >= players[i].health
             /\ players'[i].deaths = players[i].deaths]_vars

====
